---- MODULE Spec2Model ----
(***************************************************************************)
(* Model of the documentation crawler (package scraper) and of the text    *)
(* chunker (package processor) of xhad/yes.                                *)
(*                                                                         *)
(* Go strings are modelled as sequences of one-character strings, so that  *)
(* strings.HasSuffix, strings.Contains, strings.TrimSpace and url.Parse    *)
(* are computed on the characters, as the code computes them.              *)
(***************************************************************************)
EXTENDS Integers, Sequences, FiniteSets, TLC

(***************************************************************************)
(* Package strings                                                         *)
(***************************************************************************)
Upper == <<"A","B","C","D","E","F","G","H","I","J","K","L","M",
           "N","O","P","Q","R","S","T","U","V","W","X","Y","Z">>

Lower == <<"a","b","c","d","e","f","g","h","i","j","k","l","m",
           "n","o","p","q","r","s","t","u","v","w","x","y","z">>

Digits == {"0","1","2","3","4","5","6","7","8","9"}

Range(f) == { f[i] : i \in DOMAIN f }

IsLetter(c) == c \in Range(Upper) \cup Range(Lower)

ToLowerChar(c) ==
  IF c \in Range(Upper) THEN Lower[CHOOSE i \in 1..26 : Upper[i] = c] ELSE c

ToLower(str) == [ i \in 1..Len(str) |-> ToLowerChar(str[i]) ]

HasPrefix(str, prefix) ==
  /\ Len(prefix) <= Len(str)
  /\ SubSeq(str, 1, Len(prefix)) = prefix

HasSuffix(str, suffix) ==
  /\ Len(suffix) <= Len(str)
  /\ SubSeq(str, Len(str) - Len(suffix) + 1, Len(str)) = suffix

\* strings.Index: position of the first occurrence of substr, 0 when absent
\* (Go returns the 0-based index and -1).
Index(str, substr) ==
  LET hits == { i \in 1..(Len(str) - Len(substr) + 1) :
                  SubSeq(str, i, i + Len(substr) - 1) = substr }
  IN IF hits = {} THEN 0 ELSE CHOOSE i \in hits : \A j \in hits : i <= j

LastIndex(str, substr) ==
  LET hits == { i \in 1..(Len(str) - Len(substr) + 1) :
                  SubSeq(str, i, i + Len(substr) - 1) = substr }
  IN IF hits = {} THEN 0 ELSE CHOOSE i \in hits : \A j \in hits : i >= j

Contains(str, substr) == Index(str, substr) # 0

\* unicode.IsSpace restricted to the characters of the model
IsSpace(c) == c \in {" ", "\n", "\t"}

RECURSIVE TrimLeft(_)
TrimLeft(str) ==
  IF str # <<>> /\ IsSpace(Head(str)) THEN TrimLeft(Tail(str)) ELSE str

RECURSIVE TrimRight(_)
TrimRight(str) ==
  IF str # <<>> /\ IsSpace(str[Len(str)])
  THEN TrimRight(SubSeq(str, 1, Len(str) - 1))
  ELSE str

TrimSpace(str) == TrimRight(TrimLeft(str))

\* strings.Fields: the maximal runs of non-space characters
RECURSIVE Fields(_)
Fields(str) ==
  LET t == TrimLeft(str)
      spaces == { i \in 1..Len(t) : IsSpace(t[i]) }
      stop == IF spaces = {} THEN Len(t) + 1
              ELSE CHOOSE i \in spaces : \A j \in spaces : i <= j
  IN IF t = <<>> THEN <<>>
     ELSE <<SubSeq(t, 1, stop - 1)>> \o Fields(SubSeq(t, stop, Len(t)))

RECURSIVE Join(_, _)
Join(elems, sep) ==
  IF elems = <<>> THEN <<>>
  ELSE IF Len(elems) = 1 THEN elems[1]
  ELSE elems[1] \o sep \o Join(Tail(elems), sep)

(***************************************************************************)
(* Package net/url, for the URL shapes of the model: no userinfo, no       *)
(* percent-escapes and no dot segments occur in UrlUniverse.               *)
(***************************************************************************)
CTL == "\n"

NoURL == [ok |-> FALSE, Scheme |-> <<>>, Opaque |-> <<>>, Host |-> <<>>,
          Path |-> <<>>, ForceQuery |-> FALSE, RawQuery |-> <<>>,
          Fragment |-> <<>>]

\* url.getScheme: [ok, scheme, rest]
RECURSIVE getSchemeAt(_, _)
getSchemeAt(rawURL, i) ==
  IF i > Len(rawURL) THEN [ok |-> TRUE, scheme |-> <<>>, rest |-> rawURL]
  ELSE LET c == rawURL[i] IN
    IF IsLetter(c) THEN getSchemeAt(rawURL, i + 1)
    ELSE IF c \in Digits \cup {"+", "-", "."}
      THEN IF i = 1 THEN [ok |-> TRUE, scheme |-> <<>>, rest |-> rawURL]
           ELSE getSchemeAt(rawURL, i + 1)
    ELSE IF c = ":"
      THEN IF i = 1 THEN [ok |-> FALSE, scheme |-> <<>>, rest |-> <<>>]
           ELSE [ok |-> TRUE, scheme |-> SubSeq(rawURL, 1, i - 1),
                 rest |-> SubSeq(rawURL, i + 1, Len(rawURL))]
    ELSE [ok |-> TRUE, scheme |-> <<>>, rest |-> rawURL]

getScheme(rawURL) == getSchemeAt(rawURL, 1)

\* url.parse, after the fragment has been cut off
parse(rawURL) ==
  IF \E i \in 1..Len(rawURL) : rawURL[i] = CTL THEN NoURL
  ELSE LET sch == getScheme(rawURL) IN
    IF ~sch.ok THEN NoURL
    ELSE
      LET q == Index(sch.rest, <<"?">>)
          force == HasSuffix(sch.rest, <<"?">>) /\ q = Len(sch.rest)
          rest == IF q = 0 THEN sch.rest ELSE SubSeq(sch.rest, 1, q - 1)
          query == IF q = 0 THEN <<>>
                   ELSE SubSeq(sch.rest, q + 1, Len(sch.rest))
          seg == IF Index(rest, <<"/">>) = 0 THEN rest
                 ELSE SubSeq(rest, 1, Index(rest, <<"/">>) - 1)
      IN
        IF ~HasPrefix(rest, <<"/">>) /\ sch.scheme # <<>>
        THEN \* rootless path with a scheme: opaque
             [NoURL EXCEPT !.ok = TRUE, !.Scheme = ToLower(sch.scheme),
                           !.Opaque = rest, !.ForceQuery = force,
                           !.RawQuery = query]
        ELSE IF ~HasPrefix(rest, <<"/">>) /\ Contains(seg, <<":">>)
        THEN NoURL  \* first path segment in URL cannot contain colon
        ELSE IF HasPrefix(rest, <<"/", "/">>)
                /\ (sch.scheme # <<>> \/ ~HasPrefix(rest, <<"/", "/", "/">>))
        THEN LET auth == SubSeq(rest, 3, Len(rest))
                 slash == Index(auth, <<"/">>)
                 host == IF slash = 0 THEN auth
                         ELSE SubSeq(auth, 1, slash - 1)
                 path == IF slash = 0 THEN <<>>
                         ELSE SubSeq(auth, slash, Len(auth))
             IN [NoURL EXCEPT !.ok = TRUE, !.Scheme = ToLower(sch.scheme),
                              !.Host = host, !.Path = path,
                              !.ForceQuery = force, !.RawQuery = query]
        ELSE [NoURL EXCEPT !.ok = TRUE, !.Scheme = ToLower(sch.scheme),
                           !.Path = rest, !.ForceQuery = force,
                           !.RawQuery = query]

\* url.Parse: ok = FALSE stands for a non-nil error
Parse(rawURL) ==
  LET h == Index(rawURL, <<"#">>)
      u == IF h = 0 THEN rawURL ELSE SubSeq(rawURL, 1, h - 1)
      frag == IF h = 0 THEN <<>> ELSE SubSeq(rawURL, h + 1, Len(rawURL))
      p == parse(u)
  IN IF ~p.ok THEN NoURL ELSE [p EXCEPT !.Fragment = frag]

IsAbs(u) == u.Scheme # <<>>

\* (*URL).String
String(u) ==
  LET scheme == IF u.Scheme # <<>> THEN u.Scheme \o <<":">> ELSE <<>>
      slashes == IF (u.Scheme # <<>> \/ u.Host # <<>>)
                    /\ (u.Host # <<>> \/ u.Path # <<>>)
                 THEN <<"/", "/">> ELSE <<>>
      sep == IF u.Path # <<>> /\ Head(u.Path) # "/" /\ u.Host # <<>>
             THEN <<"/">> ELSE <<>>
      body == IF u.Opaque # <<>> THEN u.Opaque
              ELSE slashes \o u.Host \o sep \o u.Path
      query == IF u.ForceQuery \/ u.RawQuery # <<>>
               THEN <<"?">> \o u.RawQuery ELSE <<>>
      frag == IF u.Fragment # <<>> THEN <<"#">> \o u.Fragment ELSE <<>>
  IN scheme \o body \o query \o frag

\* url.resolvePath without dot segments
resolvePath(base, ref) ==
  IF ref = <<>> THEN base
  ELSE IF Head(ref) # "/"
    THEN SubSeq(base, 1, LastIndex(base, <<"/">>)) \o ref
  ELSE ref

\* (*URL).ResolveReference
ResolveReference(u, ref) ==
  LET withScheme == IF ref.Scheme = <<>> THEN [ref EXCEPT !.Scheme = u.Scheme]
                    ELSE ref
  IN IF ref.Scheme # <<>> \/ ref.Host # <<>>
     THEN [withScheme EXCEPT !.Path = resolvePath(ref.Path, <<>>)]
     ELSE IF ref.Opaque # <<>>
     THEN [withScheme EXCEPT !.Host = <<>>, !.Path = <<>>]
     ELSE
       LET inherit == ref.Path = <<>> /\ ~ref.ForceQuery /\ ref.RawQuery = <<>>
       IN [withScheme EXCEPT
             !.RawQuery = IF inherit THEN u.RawQuery ELSE ref.RawQuery,
             !.Fragment = IF inherit /\ ref.Fragment = <<>>
                          THEN u.Fragment ELSE ref.Fragment,
             !.Host = u.Host,
             !.Path = resolvePath(u.Path, ref.Path)]

(***************************************************************************)
(* The URLs, pages and configurations of the model                         *)
(***************************************************************************)
ORIGIN == <<"h", ":", "/", "/", "a">>

HTML == <<".", "h", "t", "m", "l">>

PDF == <<".", "p", "d", "f">>

urlA == ORIGIN \o <<"/">>

urlB == ORIGIN \o <<"/", "b">> \o HTML

urlE == ORIGIN \o <<"/", "e">> \o HTML

urlF == ORIGIN \o <<"/", "f">> \o HTML

\* a page on another host
urlC == <<"h", ":", "/", "/", "c", "/", "c">> \o HTML

\* a page on a subdomain of the start host
urlS == <<"h", ":", "/", "/", "s", ".", "a", "/">>

\* same host, extension that is not listed
urlD == ORIGIN \o <<"/", "d">> \o PDF

\* same host, under the ignored directory /p/
urlP == ORIGIN \o <<"/", "p", "/", "x">> \o HTML

\* a relative reference to urlB
hrefB == <<"/", "b">> \o HTML

\* a reference url.Parse rejects (control character)
hrefBad == <<"/", "x", CTL>>

UrlUniverse == {urlA, urlB, urlE, urlF, urlC, urlS, urlD, urlP}

LinksA == { <<>>,
            <<hrefB, urlC>>,
            <<urlB, urlE>>,
            <<urlA, urlD, urlP, urlE>>,
            <<hrefBad, urlS, urlB>> }

LinksB == { <<>>, <<urlE, urlB>>, <<urlF, urlA>> }

LinksE == { <<>>, <<urlB, urlD>> }

\* what the fetch collaborator answers for one URL: err is the error of
\* client.Get, parseErr the error of goquery.NewDocumentFromReader, links
\* the href attributes of the a[href] elements in document order
Page(links) ==
  [err |-> FALSE, StatusCode |-> 200, parseErr |-> FALSE, links |-> links]

NotFound ==
  [err |-> FALSE, StatusCode |-> 404, parseErr |-> FALSE, links |-> <<>>]

Failures == { <<>>,
              <<urlA, [Page(<<>>) EXCEPT !.StatusCode = 404]>>,
              <<urlB, [Page(<<>>) EXCEPT !.err = TRUE]>>,
              <<urlB, [Page(<<>>) EXCEPT !.StatusCode = 404]>>,
              <<urlE, [Page(<<>>) EXCEPT !.parseErr = TRUE]>> }

Site(la, lb, le, fail) ==
  [ u \in UrlUniverse |->
      IF fail # <<>> /\ fail[1] = u THEN fail[2]
      ELSE IF u = urlA THEN Page(la)
      ELSE IF u = urlB THEN Page(lb)
      ELSE IF u = urlE THEN Page(le)
      ELSE Page(<<>>) ]

Sites == { Site(la, lb, le, fail) :
             la \in LinksA, lb \in LinksB, le \in LinksE, fail \in Failures }

MaxDepths == {0, 1, 2}

ExtensionLists == { <<>>, <<HTML>>, <<HTML, <<"/">>>> }

PatternLists == { <<>>, <<<<"/", "p", "/">>>>, <<<<"/", "p", "/">>, <<"e", ".">>>> }

ScraperConfigs ==
  [ BaseURL : {urlA}, MaxDepth : MaxDepths, RateLimit : {0},
    IgnorePatterns : PatternLists, AllowedExtensions : ExtensionLists,
    Timeout : {0}, OnProgress : {TRUE} ]

StartURLs == {urlA, urlB, urlC, hrefBad}

\* number of Scrape calls made on one Scraper
MaxCalls == 2

(***************************************************************************)
(* Package scraper                                                         *)
(***************************************************************************)
\* package processor
VARIABLES
  p,          \* the Processor: its config
  content,    \* the Content of the Document handed to Process
  input,      \* the slice of Documents handed to Process
  processed,  \* the ProcessedDocuments Process returned: each its Chunks
  phase       \* "ready" before the Process call, "done" after it

processorVars == <<p, content, input, processed, phase>>

\* package store
VARIABLES
  table,      \* the rows of the documents table, by id
  tx,         \* the running Store call: its transaction and its position
  storeLog    \* what each finished Store call found, got and returned

storeVars == <<table, tx, storeLog>>

\* the interactive loop of cmd/main.go and the handler of server/server.go
VARIABLES
  session,    \* the loop: its variant, its position and the query at hand
  trace       \* the calls made for the query at hand, in order

sessionVars == <<session, trace>>

\* the caller of Scrape
VARIABLES
  cancel      \* the cancellation signal: raised or not, and the crawl then

\* package llm: ChatEngine.ChatStream and the loop that reads its channel
VARIABLES
  llm,        \* what GenerateContent answers: an error, nil, or Choices
  resultChan, \* the channel: what passed through it, and its closes
  producer,   \* the goroutine of ChatStream: its position
  consumer    \* the range loop over the channel: its variant, its position

streamVars == <<llm, resultChan, producer, consumer>>

\* the progress counter of the orchestrator
VARIABLES
  scrapeCount, \* the int32 that OnProgress adds to
  accesses,    \* the accesses to it, in order: by whom, how, the value
  reporter     \* which closure is the callback, and the progress updater

progressVars == <<scrapeCount, accesses, reporter>>

\* the orchestrator's storing loop, VectorStore.Query, package config with
\* the construction of the chat engine, the progress updaters of run, and
\* the connection of the WebSocket server
VARIABLES
  ingest,     \* the storing loop: its position and the Store calls it made
  retrieval,  \* the Query calls made: the limit and what came back
  validator,  \* a Config, what Validate said and what NewWithConfig did
  tasks,      \* the progress updaters started, and what they did to a bar
  conn        \* the connection: the handlers running and the writes

appVars == <<ingest, retrieval, validator, tasks, conn>>

notScraperVars ==
  <<processorVars, storeVars, sessionVars, streamVars, appVars>>

VARIABLES
  web,        \* the site: URL -> answer of the fetch collaborator
  s,          \* the Scraper: config, visited, limiter, baseHost
  stack,      \* the activations of scrapeRecursive, innermost last
  documents,  \* the documents slice of the running Scrape call
  returns,    \* what each finished Scrape call got and returned
  fetched,    \* the client.Get calls of the running Scrape call, in order
  progress,   \* the OnProgress calls of the running Scrape call, in order
  followed,   \* the anchors the running Scrape call iterated over, in order
  errlog,     \* the "Error scraping URL" log lines of the running call
  entry,      \* the argument of the running Scrape call, visited at its start
  calls       \* number of Scrape calls started

scraperVars ==
  <<web, s, stack, documents, returns, fetched, progress, followed,
    errlog, entry, calls>>

nil == "nil"

\* rate.NewLimiter(limit, 1): one token at the start
NewLimiter(limit, burst) ==
  [limit |-> limit, burst |-> burst, tokens |-> burst]

DefaultExtensions == <<HTML, <<".", "h", "t", "m">>, <<"/">>, <<>>>>

\* a construction that keeps a MaxDepth of 0
scraper_NewWithConfig_KeepZero(config) ==
  LET c1 == IF config.Timeout = 0 THEN [config EXCEPT !.Timeout = 30]
            ELSE config
      c3 == IF c1.RateLimit = 0 THEN [c1 EXCEPT !.RateLimit = 2] ELSE c1
      c4 == IF Len(c3.AllowedExtensions) = 0
            THEN [c3 EXCEPT !.AllowedExtensions = DefaultExtensions]
            ELSE c3
      parsedURL == Parse(c4.BaseURL)
  IN [ err |-> IF parsedURL.ok THEN nil ELSE "parse",
       scraper |-> [ config |-> c4,
                     visited |-> {},
                     limiter |-> NewLimiter(c4.RateLimit, 1),
                     baseHost |-> parsedURL.Host ] ]

\* lines 35-63
scraper_NewWithConfig(config) ==
  LET c1 == IF config.Timeout = 0 THEN [config EXCEPT !.Timeout = 30]
            ELSE config
      c2 == IF c1.MaxDepth = 0 THEN [c1 EXCEPT !.MaxDepth = 3] ELSE c1
      c3 == IF c2.RateLimit = 0 THEN [c2 EXCEPT !.RateLimit = 2] ELSE c2
      c4 == IF Len(c3.AllowedExtensions) = 0
            THEN [c3 EXCEPT !.AllowedExtensions = DefaultExtensions]
            ELSE c3
      parsedURL == Parse(c4.BaseURL)
  IN [ err |-> IF parsedURL.ok THEN nil ELSE "parse",
       scraper |-> [ config |-> c4,
                     visited |-> {},
                     limiter |-> NewLimiter(c4.RateLimit, 1),
                     baseHost |-> parsedURL.Host ] ]

\* the extension list matched against the start of the path
validExt_Prefix(ext, allowed) ==
  \E i \in 1..Len(allowed) : HasPrefix(ext, allowed[i])

validExt(ext, allowed) ==
  \E i \in 1..Len(allowed) : HasSuffix(ext, allowed[i])

\* without the same-host test
shouldProcessURL_AnyHost(sc, urlStr) ==
  LET parsedURL == Parse(urlStr) IN
    /\ parsedURL.ok
    /\ validExt(ToLower(parsedURL.Path), sc.config.AllowedExtensions)
    /\ \A i \in 1..Len(sc.config.IgnorePatterns) :
          ~Contains(urlStr, sc.config.IgnorePatterns[i])

\* the ignore patterns matched against the start of the path only
shouldProcessURL_IgnorePrefix(sc, urlStr) ==
  LET parsedURL == Parse(urlStr) IN
    /\ parsedURL.ok
    /\ parsedURL.Host = sc.baseHost
    /\ validExt(ToLower(parsedURL.Path), sc.config.AllowedExtensions)
    /\ \A i \in 1..Len(sc.config.IgnorePatterns) :
          ~HasPrefix(parsedURL.Path, sc.config.IgnorePatterns[i])

shouldProcessURL(sc, urlStr) ==
  LET parsedURL == Parse(urlStr) IN
    /\ parsedURL.ok
    /\ parsedURL.Host = sc.baseHost
    /\ validExt(ToLower(parsedURL.Path), sc.config.AllowedExtensions)
    /\ \A i \in 1..Len(sc.config.IgnorePatterns) :
          ~Contains(urlStr, sc.config.IgnorePatterns[i])

\* without the test of visited
skip_DepthOnly(sc, urlStr, depth) == depth > sc.config.MaxDepth

\* the first test of scrapeRecursive
skip(sc, urlStr, depth) ==
  depth > sc.config.MaxDepth \/ urlStr \in sc.visited

Frame(urlStr, depth) ==
  [urlStr |-> urlStr, depth |-> depth, pc |-> "enter", links |-> <<>>, i |-> 1]

Top == stack[Len(stack)]

SetTop(f) == [stack EXCEPT ![Len(stack)] = f]

Response(u) == IF u \in DOMAIN web THEN web[u] ELSE NotFound

\* a callback that hands the error on to its caller
childError_Propagate(err) == [log |-> err # nil, propagate |-> err # nil]

\* what the callback of Each does with the error of the recursive call:
\* it logs it and goes on with the next anchor
childError(err) == [log |-> err # nil, propagate |-> FALSE]

\* scrapeRecursive returns err.  The root activation ends Scrape; another
\* one hands err to the Each callback of its caller, which goes on with
\* its next anchor (a callback that propagated err would unwind to Scrape).
Return(err) ==
  IF Len(stack) = 1 \/ childError(err).propagate
  THEN /\ stack' = <<>>
       /\ returns' = Append(returns,
                       [url |-> entry.url, visited |-> entry.visited,
                        documents |-> documents', err |-> err,
                        fetched |-> fetched', followed |-> followed,
                        progress |-> progress, errlog |-> errlog])
       /\ errlog' = errlog
  ELSE /\ stack' = SubSeq(stack, 1, Len(stack) - 1)
       /\ errlog' = IF childError(err).log
                    THEN Append(errlog, [url |-> Top.urlStr, err |-> err])
                    ELSE errlog
       /\ returns' = returns

Scrape(url) ==
  /\ stack = <<>>
  /\ calls < MaxCalls
  /\ UNCHANGED <<notScraperVars, cancel, progressVars>>
  /\ calls' = calls + 1
  /\ stack' = <<Frame(url, 0)>>
  /\ documents' = <<>>
  /\ fetched' = <<>>
  /\ progress' = <<>>
  /\ followed' = <<>>
  /\ errlog' = <<>>
  /\ entry' = [url |-> url, visited |-> s.visited]
  /\ UNCHANGED <<web, s, returns>>

\* a mark that is not kept
markVisited_Forget(visited, urlStr) == visited

\* line 166: s.visited[urlStr] = true
markVisited(visited, urlStr) == visited \cup {urlStr}

\* lines 158-166: the admission test and the mark in visited
Enter ==
  /\ stack # <<>>
  /\ Top.pc = "enter"
  /\ UNCHANGED <<notScraperVars, cancel, progressVars>>
  /\ UNCHANGED <<web, documents, fetched, progress, followed, entry, calls>>
  /\ IF skip(s, Top.urlStr, Top.depth) \/ ~shouldProcessURL(s, Top.urlStr)
     THEN /\ Return(nil)
          /\ s' = s
     ELSE /\ s' = [s EXCEPT !.visited = markVisited(@, Top.urlStr)]
          /\ stack' = SetTop([Top EXCEPT !.pc = "progress"])
          /\ UNCHANGED <<returns, errlog>>

\* number of rounds of the progress updater
MaxLoads == 2

\* math.MaxInt32
MaxInt32 == 2147483647

\* an add that stores delta
AddInt32_Store(addr, delta) == delta

\* atomic.AddInt32 of a delta >= 0 to a counter >= 0: the new value, which
\* wraps around behind MaxInt32
AddInt32(addr, delta) ==
  IF addr > MaxInt32 - delta
  THEN (addr - MaxInt32 - 1) + (delta - MaxInt32 - 1)
  ELSE addr + delta

\* atomic.LoadInt32
LoadInt32(addr) == addr

Access(thread, op, value) == [thread |-> thread, op |-> op, value |-> value]

\* the closure handed to the crawler as OnProgress, run on the crawling
\* thread: none that counts, the one of run (main.go lines 521-523: the
\* atomic add) or the one of handleMessage (server.go lines 137-140: the
\* atomic add, then the counter read as a plain variable for the message)
Callback ==
  /\ reporter' = reporter
  /\ CASE reporter.variant = "none" ->
            UNCHANGED <<scrapeCount, accesses>>
       [] reporter.variant = "cli" ->
            /\ scrapeCount' = AddInt32(scrapeCount, 1)
            /\ accesses' = Append(accesses,
                   Access("crawl", "atomic.AddInt32", scrapeCount'))
       [] reporter.variant = "ws" ->
            /\ scrapeCount' = AddInt32(scrapeCount, 1)
            /\ accesses' = accesses \o
                   << Access("crawl", "atomic.AddInt32", scrapeCount'),
                      Access("crawl", "read", scrapeCount') >>

\* a callback that is run twice for the URL
onProgress_Twice(sc, log, urlStr) ==
  IF sc.config.OnProgress THEN Append(Append(log, urlStr), urlStr) ELSE log

\* lines 167-169: the callback, when one is configured, is run with the URL;
\* log is the sequence of the URLs it has been run with
onProgress(sc, log, urlStr) ==
  IF sc.config.OnProgress THEN Append(log, urlStr) ELSE log

\* lines 167-169
OnProgress ==
  /\ stack # <<>>
  /\ Top.pc = "progress"
  /\ UNCHANGED <<notScraperVars, cancel>>
  /\ IF s.config.OnProgress THEN Callback ELSE UNCHANGED progressVars
  /\ progress' = onProgress(s, progress, Top.urlStr)
  /\ stack' = SetTop([Top EXCEPT !.pc = "wait"])
  /\ UNCHANGED <<web, s, documents, returns, fetched, followed, errlog,
                 entry, calls>>

\* lines 172-175: limiter.Wait(context.Background()) takes the token, or
\* sleeps until the limiter has refilled it; the context never ends the wait
Wait ==
  /\ stack # <<>>
  /\ Top.pc = "wait"
  /\ UNCHANGED <<notScraperVars, cancel, progressVars>>
  /\ s.limiter.tokens >= 1 \/ s.limiter.limit > 0
  /\ s' = [s EXCEPT !.limiter.tokens = 0]
  /\ stack' = SetTop([Top EXCEPT !.pc = "get"])
  /\ UNCHANGED <<web, documents, returns, fetched, progress, followed,
                 errlog, entry, calls>>

Document(urlStr, depth) ==
  [ID |-> <<>>, URL |-> urlStr, Metadata |-> [depth |-> depth]]

\* append(*documents, document)
appendDocument(docs, document) == Append(docs, document)

\* lines 177-208: GET, status test, HTML parse, append of the Document
Get ==
  /\ stack # <<>>
  /\ Top.pc = "get"
  /\ UNCHANGED <<notScraperVars, cancel, progressVars>>
  /\ fetched' = Append(fetched,
                  [url |-> Top.urlStr, depth |-> Top.depth,
                   from |-> IF Len(stack) = 1 THEN <<>>
                            ELSE stack[Len(stack) - 1].urlStr])
  /\ LET resp == Response(Top.urlStr) IN
       IF resp.err THEN documents' = documents /\ Return("get")
       ELSE IF resp.StatusCode # 200
         THEN documents' = documents /\ Return("status")
       ELSE IF resp.parseErr
         THEN documents' = documents /\ Return("parse")
       ELSE /\ documents' =
                 appendDocument(documents, Document(Top.urlStr, Top.depth))
            /\ stack' = SetTop([Top EXCEPT !.pc = "links",
                                           !.links = resp.links, !.i = 1])
            /\ UNCHANGED <<returns, errlog>>
  /\ UNCHANGED <<web, s, progress, followed, entry, calls>>

\* the anchors taken last to first
anchorAt_Reverse(links, i) == links[Len(links) + 1 - i]

\* the order in which Each hands the anchors to the callback
anchorAt(links, i) == links[i]

\* lines 217-231: the absolute URL of an href found in the page urlStr;
\* ok = FALSE when the callback gives the anchor up
resolve(urlStr, href) ==
  LET absoluteURL == Parse(href)
      base == Parse(urlStr)
  IN IF ~absoluteURL.ok THEN [ok |-> FALSE, url |-> <<>>]
     ELSE IF IsAbs(absoluteURL) THEN [ok |-> TRUE, url |-> String(absoluteURL)]
     ELSE IF ~base.ok THEN [ok |-> FALSE, url |-> <<>>]
     ELSE [ok |-> TRUE, url |-> String(ResolveReference(base, absoluteURL))]

\* lines 211-238: one call of the Each callback
Each ==
  /\ stack # <<>>
  /\ Top.pc = "links"
  /\ Top.i <= Len(Top.links)
  /\ UNCHANGED <<notScraperVars, cancel, progressVars>>
  /\ LET href == anchorAt(Top.links, Top.i)
         target == resolve(Top.urlStr, href)
         next == [Top EXCEPT !.i = @ + 1]
     IN /\ followed' = Append(followed, [from |-> Top.urlStr, href |-> href])
        /\ stack' = IF target.ok
                    THEN Append(SetTop(next), Frame(target.url, Top.depth + 1))
                    ELSE SetTop(next)
  /\ UNCHANGED <<web, s, documents, returns, fetched, progress, errlog,
                 entry, calls>>

\* line 240: Each is through, scrapeRecursive returns nil
EachDone ==
  /\ stack # <<>>
  /\ Top.pc = "links"
  /\ Top.i > Len(Top.links)
  /\ UNCHANGED <<notScraperVars, cancel, progressVars>>
  /\ UNCHANGED <<web, s, documents, fetched, progress, followed, entry, calls>>
  /\ Return(nil)

ScraperIdle ==
  /\ web = Site(<<>>, <<>>, <<>>, <<>>)
  /\ s = scraper_NewWithConfig(
           [BaseURL |-> urlA, MaxDepth |-> 0, RateLimit |-> 0,
            IgnorePatterns |-> <<>>, AllowedExtensions |-> <<>>,
            Timeout |-> 0, OnProgress |-> TRUE]).scraper
  /\ stack = <<>>
  /\ documents = <<>>
  /\ returns = <<>>
  /\ fetched = <<>>
  /\ progress = <<>>
  /\ followed = <<>>
  /\ errlog = <<>>
  /\ entry = [url |-> <<>>, visited |-> {}]
  /\ calls = 0

ScraperInit ==
  /\ web \in Sites
  /\ \E config \in ScraperConfigs :
       /\ scraper_NewWithConfig(config).err = nil
       /\ s = scraper_NewWithConfig(config).scraper
  /\ stack = <<>>
  /\ documents = <<>>
  /\ returns = <<>>
  /\ fetched = <<>>
  /\ progress = <<>>
  /\ followed = <<>>
  /\ errlog = <<>>
  /\ entry = [url |-> <<>>, visited |-> {}]
  /\ calls = 0

ScraperNext ==
  \/ \E url \in StartURLs : Scrape(url)
  \/ Enter
  \/ OnProgress
  \/ Wait
  \/ Get
  \/ Each
  \/ EachDone

\* no cancellation signal has been raised
CancelIdle ==
  cancel = [raised |-> FALSE, call |-> 0, url |-> <<>>, fetched |-> 0,
            visited |-> {}]

\* line 172: the caller's signal (a timeout or an abort) arrives while the
\* innermost activation is in limiter.Wait; Wait was given
\* context.Background(), which is never done, so nothing of the crawler
\* changes
Cancel ==
  /\ stack # <<>>
  /\ Top.pc = "wait"
  /\ ~cancel.raised
  /\ cancel' = [raised |-> TRUE, call |-> calls, url |-> Top.urlStr,
                fetched |-> Len(fetched), visited |-> s.visited]
  /\ UNCHANGED <<scraperVars, notScraperVars, progressVars>>

\* a site without failures, crawled once by a Scraper without ignore
\* patterns
CancelInit ==
  /\ ScraperInit
  /\ \E la \in LinksA, lb \in LinksB, le \in LinksE :
       web = Site(la, lb, le, <<>>)
  /\ s.config.IgnorePatterns = <<>>
  /\ cancel = [raised |-> FALSE, call |-> 0, url |-> <<>>, fetched |-> 0,
               visited |-> {}]

CancelNext == ScraperNext \/ Cancel

\* status codes a server answers with (http.Client follows redirects
\* itself; 304 is handed to the caller as it is)
StatusCodes == {200, 201, 204, 304, 404, 500}

\* the server answers urlA or urlB with any of the status codes
StatusSites ==
  { Site(la, lb, <<>>, <<u, [Page(l) EXCEPT !.StatusCode = code]>>) :
      la \in LinksA, lb \in LinksB, u \in {urlA, urlB},
      l \in {<<>>, <<urlE>>}, code \in StatusCodes }

StatusInit ==
  /\ web \in StatusSites
  /\ \E config \in ScraperConfigs :
       /\ config.IgnorePatterns = <<>>
       /\ config.AllowedExtensions = <<>>
       /\ scraper_NewWithConfig(config).err = nil
       /\ s = scraper_NewWithConfig(config).scraper
  /\ stack = <<>>
  /\ documents = <<>>
  /\ returns = <<>>
  /\ fetched = <<>>
  /\ progress = <<>>
  /\ followed = <<>>
  /\ errlog = <<>>
  /\ entry = [url |-> <<>>, visited |-> {}]
  /\ calls = 0

(***************************************************************************)
(* Package processor                                                       *)
(***************************************************************************)
\* characters of the document texts
Alphabet == {"a", ".", " "}

\* longest document text
MaxTextLen == 7

Texts == UNION { [1..n -> Alphabet] : n \in 0..MaxTextLen }

\* longest text behind the long first sentence
MaxTail == 2

\* texts whose first sentence is about as long as the default overlap of
\* 200 characters: 199, 200 or 201 times "a", a full stop, and a short rest
LongTexts ==
  { [i \in 1..n |-> "a"] \o <<".">> \o rest :
      n \in 199..201, rest \in UNION { [1..k -> Alphabet] : k \in 0..MaxTail } }

\* longest text of words
MaxWordsLen == 5

\* texts of the words "a" (a default stopword), "A", "d" (a custom
\* stopword), "d." and the like
WordTexts ==
  UNION { [1..n -> {"a", "A", "d", ".", " "}] : n \in 0..MaxWordsLen }

\* one chunk per Document, with and without the stopword filter
StopwordConfigs ==
  [ ChunkSize : {0}, ChunkOverlap : {0}, MinChunkLength : {1},
    RemoveStopwords : BOOLEAN, CustomStopwords : {<<>>, <<<<"d">>>>},
    PreserveLineBreaks : BOOLEAN ]

\* models.Document: the fields Process is given
ContentDocument(url, text) == [URL |-> url, Content |-> text]

\* longest slice of Documents
MaxSlice == 3

\* slices of Documents of two URLs with no text, blank text, one short
\* sentence or two
Slices ==
  LET ds == { ContentDocument(url, text) :
                url \in {<<"u">>, <<"v">>},
                text \in { <<>>, <<" ">>, <<"a", ".">>,
                           <<"a", ".", " ", "a", "a", ".">> } }
  IN UNION { [1..n -> ds] : n \in 0..MaxSlice }

ProcessorConfigs ==
  [ ChunkSize : {0, 3, 5}, ChunkOverlap : {0, 2}, MinChunkLength : {0, 1, 3},
    RemoveStopwords : {FALSE}, CustomStopwords : {<<>>},
    PreserveLineBreaks : {FALSE} ]

processor_NewWithConfig(config) ==
  LET c1 == IF config.ChunkSize = 0 THEN [config EXCEPT !.ChunkSize = 1000]
            ELSE config
      c2 == IF c1.ChunkOverlap = 0 THEN [c1 EXCEPT !.ChunkOverlap = 200]
            ELSE c1
      c3 == IF c2.MinChunkLength = 0 THEN [c2 EXCEPT !.MinChunkLength = 100]
            ELSE c2
  IN [config |-> c3]

getStopwords ==
  << <<"a">>,
     <<"a", "n">>,
     <<"a", "n", "d">>,
     <<"a", "r", "e">>,
     <<"a", "s">>,
     <<"a", "t">>,
     <<"b", "e">>,
     <<"b", "y">>,
     <<"f", "o", "r">>,
     <<"f", "r", "o", "m">>,
     <<"h", "a", "s">>,
     <<"h", "e">>,
     <<"i", "n">>,
     <<"i", "s">>,
     <<"i", "t">>,
     <<"i", "t", "s">>,
     <<"o", "f">>,
     <<"o", "n">>,
     <<"t", "h", "a", "t">>,
     <<"t", "h", "e">>,
     <<"t", "o">>,
     <<"w", "a", "s">>,
     <<"w", "e", "r", "e">>,
     <<"w", "i", "l", "l">>,
     <<"w", "i", "t", "h">> >>

\* an item counts as found when an entry is a prefix of it
contains_Prefix(slice, item) ==
  \E i \in 1..Len(slice) : HasPrefix(item, slice[i])

contains(slice, item) == \E i \in 1..Len(slice) : slice[i] = item

RECURSIVE filterStopwords(_, _)
filterStopwords(words, stopwords) ==
  IF words = <<>> THEN <<>>
  ELSE IF contains(stopwords, Head(words))
    THEN filterStopwords(Tail(words), stopwords)
  ELSE <<Head(words)>> \o filterStopwords(Tail(words), stopwords)

removeStopwords(pr, text) ==
  Join(filterStopwords(Fields(text),
                       getStopwords \o pr.config.CustomStopwords), <<" ">>)

cleanText(pr, text) ==
  LET t1 == IF ~pr.config.PreserveLineBreaks THEN ToLower(text) ELSE text
      t2 == Join(Fields(t1), <<" ">>)
      t3 == IF pr.config.RemoveStopwords THEN removeStopwords(pr, t2) ELSE t2
  IN TrimSpace(t3)

\* terminators that end a sentence without the white space behind them
sentenceEnders_Bare == << <<".">>, <<"!">>, <<"?">> >>

\* line 327
sentenceEnders ==
  << <<".", " ">>, <<"!", " ">>, <<"?", " ">>,
     <<".", "\n">>, <<"!", "\n">>, <<"?", "\n">> >>

\* the loop of splitIntoSentences from character i on, the builder having
\* been reset before character i: the builder ends a sentence at the first
\* character j at which what was written since the reset (text[i..j]) has
\* a sentence ender as suffix; what is left after the last one is a sentence
RECURSIVE sentencesFrom(_, _, _)
sentencesFrom(text, i, sentences) ==
  LET ends == { j \in i..Len(text) :
                  \E e \in 1..Len(sentenceEnders) :
                    HasSuffix(SubSeq(text, i, j), sentenceEnders[e]) }
  IN IF ends = {}
     THEN IF i <= Len(text)
          THEN Append(sentences, TrimSpace(SubSeq(text, i, Len(text))))
          ELSE sentences
     ELSE LET j == CHOOSE k \in ends : \A m \in ends : k <= m
          IN sentencesFrom(text, j + 1,
                           Append(sentences, TrimSpace(SubSeq(text, i, j))))

splitIntoSentences(text) == sentencesFrom(text, 1, <<>>)

\* the overlap written behind the closed chunk, which is not reset
overlapSeed_NoReset(pr, currentChunk) ==
  IF pr.config.ChunkOverlap > 0 /\ Len(currentChunk) > pr.config.ChunkOverlap
  THEN currentChunk \o
       SubSeq(currentChunk, Len(currentChunk) - pr.config.ChunkOverlap + 1,
              Len(currentChunk))
  ELSE <<>>

\* lines 301-310: what the new chunk starts with when currentChunk is closed
overlapSeed(pr, currentChunk) ==
  IF pr.config.ChunkOverlap > 0 /\ Len(currentChunk) > pr.config.ChunkOverlap
  THEN SubSeq(currentChunk, Len(currentChunk) - pr.config.ChunkOverlap + 1,
              Len(currentChunk))
  ELSE <<>>

\* lines 317-320: the chunk emitted after the last sentence
lastChunk(pr, currentChunk) ==
  IF Len(currentChunk) >= pr.config.MinChunkLength
  THEN <<TrimSpace(currentChunk)>>
  ELSE <<>>

\* the loop of splitIntoChunks from sentence i on
RECURSIVE chunksFrom(_, _, _, _, _)
chunksFrom(pr, sentences, i, currentChunk, chunks) ==
  IF i > Len(sentences) THEN chunks \o lastChunk(pr, currentChunk)
  ELSE
    LET sentence == sentences[i]
        over == Len(currentChunk) + Len(sentence) > pr.config.ChunkSize
        saved == IF over /\ Len(currentChunk) >= pr.config.MinChunkLength
                 THEN Append(chunks, currentChunk)
                 ELSE chunks
        start == IF over THEN overlapSeed(pr, currentChunk) ELSE currentChunk
    IN chunksFrom(pr, sentences, i + 1, start \o sentence \o <<" ">>, saved)

splitIntoChunks(pr, text) ==
  chunksFrom(pr, splitIntoSentences(text), 1, <<>>, <<>>)

\* a loop that appends only the Documents that have chunks
process_SkipEmpty(pr, ds) ==
  SelectSeq([ k \in 1..Len(ds) |->
                [Document |-> ds[k],
                 Chunks |-> splitIntoChunks(pr, cleanText(pr, ds[k].Content))] ],
            LAMBDA pd : pd.Chunks # <<>>)

\* lines 250-263: the loop of Process over docs, which appends one
\* ProcessedDocument per Document
process(pr, ds) ==
  [ k \in 1..Len(ds) |->
      [Document |-> ds[k],
       Chunks |-> splitIntoChunks(pr, cleanText(pr, ds[k].Content))] ]

\* lines 247-266: Process has one return statement, with a nil error
Process ==
  /\ phase = "ready"
  /\ processed' = process(p, input)
  /\ phase' = "done"
  /\ UNCHANGED <<p, content, input>>
  /\ UNCHANGED <<scraperVars, cancel, storeVars, sessionVars, streamVars,
                 progressVars, appVars>>

\* the processor is at rest while the crawler runs
ProcessorIdle ==
  /\ p = processor_NewWithConfig(
           [ChunkSize |-> 0, ChunkOverlap |-> 0, MinChunkLength |-> 0,
            RemoveStopwords |-> FALSE, CustomStopwords |-> <<>>,
            PreserveLineBreaks |-> FALSE])
  /\ content = <<>>
  /\ input = <<>>
  /\ processed = <<>>
  /\ phase = "ready"

(***************************************************************************)
(* Package store                                                           *)
(***************************************************************************)
\* number of Store calls made on one VectorStore
MaxStores == 2

\* a byte that is not valid UTF-8
RuneError == "#"

sanitizeUTF8(str) == SelectSeq(str, LAMBDA c : c # RuneError)

DecimalDigits == <<"0", "1", "2", "3", "4", "5", "6", "7", "8", "9">>

\* the verb %d of fmt.Sprintf
RECURSIVE Itoa(_)
Itoa(n) ==
  IF n < 10 THEN <<DecimalDigits[n + 1]>>
  ELSE Itoa(n \div 10) \o <<DecimalDigits[(n % 10) + 1]>>

\* line 313: fmt.Sprintf("%s_%d", doc.ID, i)
compoundID(ID, i) == ID \o <<"_">> \o Itoa(i)

\* models.ProcessedDocument: the fields of the embedded Document that Store
\* reads, and the Chunks
ProcessedDocument(doc, title, chunks) ==
  [ID |-> doc.ID, URL |-> doc.URL, Title |-> title,
   Metadata |-> doc.Metadata, Chunks |-> chunks]

chunk1 == <<"a", "b">>
chunk2 == <<"c", RuneError>>

\* a Document with an ID of its own, as in the tests of the store
TestDocument(ID, urlStr) ==
  [ID |-> ID, URL |-> urlStr, Metadata |-> [depth |-> 0]]

\* the slices handed to Store: Documents of the tests, and Documents as
\* the crawler emits them, chunked by Process
StoreBatches ==
  { << ProcessedDocument(TestDocument(<<"x">>, urlB), <<"t">>, <<chunk1>>) >>,
    << ProcessedDocument(TestDocument(<<"x">>, urlB), <<"t">>,
                         <<chunk1, chunk2>>) >>,
    << ProcessedDocument(TestDocument(<<"x">>, urlB), <<"t">>,
                         <<chunk2, chunk1>>),
       ProcessedDocument(TestDocument(<<"y">>, urlE), <<"t">>, <<chunk1>>) >>,
    << ProcessedDocument(Document(urlA, 0), <<"t">>, <<chunk1, chunk2>>),
       ProcessedDocument(Document(urlB, 1), <<"u">>, <<chunk2>>) >>,
    << ProcessedDocument(Document(urlA, 0), <<"t">>, <<>>),
       ProcessedDocument(Document(urlE, 1), <<"u">>, <<chunk1>>) >> }

\* the answer of the embedding service for a text
CreateEmbedding(text) == [of |-> text]

\* the row the INSERT of lines 331-339 carries
Row(doc, i) ==
  [ id |-> compoundID(doc.ID, i),
    url |-> doc.URL,
    title |-> sanitizeUTF8(doc.Title),
    content |-> sanitizeUTF8(doc.Chunks[i + 1]),
    chunk_index |-> i,
    embedding |-> CreateEmbedding(sanitizeUTF8(doc.Chunks[i + 1])),
    metadata |-> doc.Metadata ]

\* the INSERT without its ON CONFLICT clause
upsert_Insert(rows, row) == Append(rows, row)

\* lines 295-302: INSERT ... ON CONFLICT (id) DO UPDATE SET content,
\* embedding, metadata
upsert(rows, row) ==
  IF \E k \in 1..Len(rows) : rows[k].id = row.id
  THEN [ k \in 1..Len(rows) |->
           IF rows[k].id = row.id
           THEN [rows[k] EXCEPT !.content = row.content,
                                !.embedding = row.embedding,
                                !.metadata = row.metadata]
           ELSE rows[k] ]
  ELSE Append(rows, row)

\* a rollback that leaves the statements of the transaction in the table
Rollback_KeepWrites(committed, rows) == rows

\* line 292: the deferred tx.Rollback of a transaction that did not commit
Rollback(committed, rows) == committed

\* the position of the loops of lines 307-347 at or after chunk i of
\* document d
RECURSIVE position(_, _, _)
position(docs, d, i) ==
  IF d > Len(docs) THEN [d |-> d, i |-> 0]
  ELSE IF i >= Len(docs[d].Chunks) THEN position(docs, d + 1, 0)
  ELSE [d |-> d, i |-> i]

\* no Store call is running
NoTx ==
  [open |-> FALSE, docs |-> <<>>, at |-> [d |-> 1, i |-> 0], rows |-> <<>>,
   written |-> 0]

\* Store returns: the transaction ends, the call is logged
StoreReturn(err, after) ==
  /\ storeLog' = Append(storeLog,
                   [docs |-> tx.docs, before |-> table, after |-> after,
                    written |-> tx.written, err |-> err])
  /\ table' = after
  /\ tx' = NoTx

\* lines 284-291: Store begins its transaction
Begin(docs) ==
  /\ ~tx.open
  /\ Len(storeLog) < MaxStores
  /\ \E ok \in BOOLEAN :
       IF ok
       THEN /\ tx' = [open |-> TRUE, docs |-> docs,
                      at |-> position(docs, 1, 0), rows |-> table,
                      written |-> 0]
            /\ UNCHANGED <<table, storeLog>>
       ELSE /\ storeLog' = Append(storeLog,
                             [docs |-> docs, before |-> table,
                              after |-> table, written |-> 0,
                              err |-> "begin"])
            /\ UNCHANGED <<table, tx>>
  /\ UNCHANGED <<scraperVars, processorVars, sessionVars, cancel,
                 streamVars, progressVars, appVars>>

\* lines 311-346: the embedding of one chunk and its INSERT
Insert ==
  /\ tx.open
  /\ tx.at.d <= Len(tx.docs)
  /\ \E out \in {"ok", "embedding", "insert"} :
       IF out = "ok"
       THEN /\ tx' = [tx EXCEPT
                        !.rows = upsert(tx.rows,
                                        Row(tx.docs[tx.at.d], tx.at.i)),
                        !.written = tx.written + 1,
                        !.at = position(tx.docs, tx.at.d, tx.at.i + 1)]
            /\ UNCHANGED <<table, storeLog>>
       ELSE StoreReturn(out, Rollback(table, tx.rows))
  /\ UNCHANGED <<scraperVars, processorVars, sessionVars, cancel,
                 streamVars, progressVars, appVars>>

\* lines 350-355: the commit
Commit ==
  /\ tx.open
  /\ tx.at.d > Len(tx.docs)
  /\ \E ok \in BOOLEAN :
       IF ok THEN StoreReturn(nil, tx.rows)
       ELSE StoreReturn("commit", Rollback(table, tx.rows))
  /\ UNCHANGED <<scraperVars, processorVars, sessionVars, cancel,
                 streamVars, progressVars, appVars>>

\* the store is at rest
StoreIdle ==
  /\ table = <<>>
  /\ tx = NoTx
  /\ storeLog = <<>>

StoreNext ==
  \/ \E docs \in StoreBatches : Begin(docs)
  \/ Insert
  \/ Commit

\* number of Query calls made on one VectorStore
MaxRetrievals == 1

\* the limits Query is called with
Limits == {0, 1, 3}

\* store.NewWithConfig, line 219: the SearchLimit of a configuration that
\* names none
DefaultSearchLimit == 5

\* lines 359-361: if limit == 0 { limit = vs.config.SearchLimit }
effectiveLimit(limit, searchLimit) ==
  IF limit = 0 THEN searchLimit ELSE limit

\* lines 381-393: the Document scanned from a row of the result
Scan(row) ==
  [ID |-> row.id, URL |-> row.url, Title |-> row.title,
   Content |-> row.content, Metadata |-> row.metadata]

\* the Documents of the Store calls that committed
RECURSIVE StoredDocs(_)
StoredDocs(k) ==
  IF k = 0 THEN <<>>
  ELSE StoredDocs(k - 1)
         \o (IF storeLog[k].err = nil THEN storeLog[k].docs ELSE <<>>)

\* the Store calls that committed
Commits == Cardinality({ k \in 1..Len(storeLog) : storeLog[k].err = nil })

\* lines 358-397: SELECT id, url, title, content, metadata ORDER BY
\* embedding <=> $1 LIMIT $2; the order is that of the distances, which the
\* database computes: any order of the rows can be the one it answers with
Query(limit) ==
  /\ ~tx.open
  /\ Len(retrieval) < MaxRetrievals
  /\ LET n == IF effectiveLimit(limit, DefaultSearchLimit) > Len(table)
              THEN Len(table)
              ELSE effectiveLimit(limit, DefaultSearchLimit)
     IN \/ retrieval' = Append(retrieval,
                           [limit |-> limit, stored |-> StoredDocs(Len(storeLog)),
                            commits |-> Commits, docs |-> <<>>,
                            err |-> "query"])
        \/ \E order \in [1..n -> 1..Len(table)] :
             /\ \A a, b \in 1..n : a # b => order[a] # order[b]
             /\ retrieval' = Append(retrieval,
                               [limit |-> limit,
                                stored |-> StoredDocs(Len(storeLog)),
                                commits |-> Commits,
                                docs |-> [k \in 1..n |-> Scan(table[order[k]])],
                                err |-> nil])
  /\ UNCHANGED <<ingest, validator, tasks, conn>>
  /\ UNCHANGED <<scraperVars, processorVars, storeVars, sessionVars, cancel,
                 streamVars, progressVars>>

QueryNext ==
  \/ StoreNext
  \/ \E limit \in Limits : Query(limit)

(***************************************************************************)
(* The interactive loop (cmd/main.go) and the WebSocket handler            *)
(* (server/server.go)                                                      *)
(***************************************************************************)
\* number of queries read in one session
MaxQueries == 2

\* most Documents one Scrape of the session returns
MaxDocs == 2

\* the first and the second version of run in cmd/main.go, and
\* WSServer.handleMessage
Variants == {"cli1", "cli", "ws"}

EXIT == <<"E", "x", "i", "t">>

\* a query that is one URL, the same between spaces, a question with a
\* URL, a question without, and the exit word
Queries ==
  { urlA,
    <<" ">> \o urlB \o <<" ">>,
    <<"q", " ">> \o urlA,
    <<"q", " ", "a">>,
    EXIT,
    <<" ", "e", "x", "i", "t">> }

\* the exit test on the query as typed
isExit_CaseSensitive(query) == query = <<"e", "x", "i", "t">>

\* strings.ToLower(query) == "exit"
isExit(query) == ToLower(query) = <<"e", "x", "i", "t">>

\* the starts of a match of https?://[^\s]+ in query
urlStarts(query) ==
  { i \in 1..Len(query) :
      \E n \in {1, 2} :
        /\ i + n + 3 <= Len(query)
        /\ query[i] = "h"
        /\ (n = 2 => query[i + 1] = "s")
        /\ SubSeq(query, i + n, i + n + 2) = <<":", "/", "/">>
        /\ ~IsSpace(query[i + n + 3]) }

\* urlRegex.FindString(query): the leftmost match, as long as it can be
urlRegex_FindString(query) ==
  IF urlStarts(query) = {} THEN <<>>
  ELSE
    LET i == CHOOSE k \in urlStarts(query) :
               \A m \in urlStarts(query) : k <= m
        spaces == { k \in i..Len(query) : IsSpace(query[k]) }
        j == IF spaces = {} THEN Len(query)
             ELSE (CHOOSE k \in spaces : \A m \in spaces : k <= m) - 1
    IN SubSeq(query, i, j)

\* the url the scraper of the query is built for
detectedURL(query) ==
  LET url == urlRegex_FindString(query)
  IN IF HasPrefix(url, <<"h">>) THEN url
     ELSE <<"h", "s", ":", "/", "/">> \o url

\* "Only continue with chat if query contains more than just the URL"
onlyURL(query, url) == TrimSpace(query) = url

\* the number of batches the storage loop hands to Store
batches(n, batchSize) == (n + batchSize - 1) \div batchSize

\* the session before its first query
NewSession(variant, streaming, batchSize) ==
  [ variant |-> variant, streaming |-> streaming, BatchSize |-> batchSize,
    pc |-> "await", query |-> <<>>, url |-> <<>>, docs |-> 0, left |-> 0,
    reads |-> 0 ]

\* the error branch of a step: color.Red / sendMessage "error", then
\* continue / return
Report(failed) ==
  /\ trace' = trace \o <<failed, "report">>
  /\ session' = [session EXCEPT !.pc = "await"]

\* the step after the ingestion of the detected URL
afterIngest(sess) ==
  IF onlyURL(sess.query, sess.url) THEN "await" ELSE "embed"

\* scanner.Scan and the tests on the query; conn.ReadMessage for the handler
ReadQuery(query) ==
  /\ session.pc = "await"
  /\ session.reads < MaxQueries
  /\ trace' = <<>>
  /\ session' =
       [session EXCEPT
          !.reads = session.reads + 1,
          !.query = query,
          !.url = IF session.variant # "cli1"
                     /\ urlRegex_FindString(query) # <<>>
                  THEN detectedURL(query) ELSE <<>>,
          !.docs = 0,
          !.left = 0,
          !.pc = IF session.variant # "ws" /\ isExit(query)
                 THEN "terminated"
                 ELSE IF session.variant # "cli1"
                         /\ urlRegex_FindString(query) # <<>>
                 THEN "scraper"
                 ELSE "embed"]
  /\ UNCHANGED <<scraperVars, processorVars, storeVars, cancel, streamVars,
                 progressVars, appVars>>

\* scanner.Scan returns false / conn.ReadMessage fails
EndOfInput ==
  /\ session.pc = "await"
  /\ session' = [session EXCEPT !.pc = "terminated"]
  /\ trace' = <<>>
  /\ UNCHANGED <<scraperVars, processorVars, storeVars, cancel, streamVars,
                 progressVars, appVars>>

\* scraper.NewWithConfig for the detected URL
NewScraper ==
  /\ session.pc = "scraper"
  /\ IF scraper_NewWithConfig(
          [BaseURL |-> session.url, MaxDepth |-> 0, RateLimit |-> 0,
           IgnorePatterns |-> <<>>, AllowedExtensions |-> <<>>,
           Timeout |-> 0, OnProgress |-> TRUE]).err # nil
     THEN Report("NewWithConfig")
     ELSE /\ session' = [session EXCEPT !.pc = "scrape"]
          /\ UNCHANGED trace
  /\ UNCHANGED <<scraperVars, processorVars, storeVars, cancel, streamVars,
                 progressVars, appVars>>

\* s.Scrape(url) and what follows it at once: in the handler only the
\* status message and the test on the query
ScrapeURL ==
  /\ session.pc = "scrape"
  /\ \/ Report("Scrape failed")
     \/ \E n \in 0..MaxDocs :
          /\ trace' = Append(trace, "Scrape")
          /\ session' =
               [session EXCEPT
                  !.docs = n,
                  !.pc = IF session.variant = "ws" THEN afterIngest(session)
                         ELSE "process"]
  /\ UNCHANGED <<scraperVars, processorVars, storeVars, cancel, streamVars,
                 progressVars, appVars>>

\* the processing loop: one Process call per scraped Document (Process
\* returns no error)
ProcessDocuments ==
  /\ session.pc = "process"
  /\ trace' = trace \o [k \in 1..session.docs |-> "Process"]
  /\ session' = [session EXCEPT
                   !.pc = "store",
                   !.left = batches(session.docs, session.BatchSize)]
  /\ UNCHANGED <<scraperVars, processorVars, storeVars, cancel, streamVars,
                 progressVars, appVars>>

\* the storage loop: one Store call per batch; a failed batch is reported
\* and the loop goes on
StoreBatch ==
  /\ session.pc = "store"
  /\ session.left > 0
  /\ \E ok \in BOOLEAN :
       trace' = IF ok THEN Append(trace, "Store")
                ELSE trace \o <<"Store failed", "report">>
  /\ session' = [session EXCEPT !.left = session.left - 1]
  /\ UNCHANGED <<scraperVars, processorVars, storeVars, cancel, streamVars,
                 progressVars, appVars>>

\* the end of the URL branch: the test on the query
StoreDone ==
  /\ session.pc = "store"
  /\ session.left = 0
  /\ session' = [session EXCEPT !.pc = afterIngest(session)]
  /\ UNCHANGED trace
  /\ UNCHANGED <<scraperVars, processorVars, storeVars, cancel, streamVars,
                 progressVars, appVars>>

\* emb.Embed.CreateEmbedding for the query; the first version of run
\* builds an error value, drops it and goes on
EmbedQuery ==
  /\ session.pc = "embed"
  /\ \/ /\ trace' = Append(trace, "CreateEmbedding")
        /\ session' = [session EXCEPT !.pc = "query"]
     \/ IF session.variant = "cli1"
        THEN /\ trace' = Append(trace, "CreateEmbedding failed")
             /\ session' = [session EXCEPT !.pc = "query"]
        ELSE Report("CreateEmbedding failed")
  /\ UNCHANGED <<scraperVars, processorVars, storeVars, cancel, streamVars,
                 progressVars, appVars>>

\* vectorStore.Query(flatEmbeddings, 5)
Retrieve ==
  /\ session.pc = "query"
  /\ \/ /\ trace' = Append(trace, "Query")
        /\ session' = [session EXCEPT !.pc = "chat"]
     \/ Report("Query failed")
  /\ UNCHANGED <<scraperVars, processorVars, storeVars, cancel, streamVars,
                 progressVars, appVars>>

\* chatEngine.ChatStream and the range over its channel, or
\* chatEngine.Chat; an error of the stream arrives as a chunk "Error: ..."
Generate ==
  /\ session.pc = "chat"
  /\ LET call == IF session.streaming THEN "ChatStream" ELSE "Chat"
     IN \/ /\ trace' = trace \o <<call, "response">>
           /\ session' = [session EXCEPT !.pc = "await"]
        \/ Report(call \o " failed")
  /\ UNCHANGED <<scraperVars, processorVars, storeVars, cancel, streamVars,
                 progressVars, appVars>>

\* no session runs
SessionIdle ==
  /\ session = [NewSession("cli", FALSE, 1) EXCEPT !.pc = "terminated"]
  /\ trace = <<>>

SessionInit ==
  /\ \E variant \in Variants, streaming \in BOOLEAN, batchSize \in {1, 2} :
       session = NewSession(variant, streaming, batchSize)
  /\ trace = <<>>

SessionNext ==
  \/ \E query \in Queries : ReadQuery(query)
  \/ EndOfInput
  \/ NewScraper
  \/ ScrapeURL
  \/ ProcessDocuments
  \/ StoreBatch
  \/ StoreDone
  \/ EmbedQuery
  \/ Retrieve
  \/ Generate

(***************************************************************************)
(* Package llm: ChatStream, and the consumers of its channel               *)
(***************************************************************************)
\* most Choices in one answer of GenerateContent
MaxChoices == 2

ErrorPrefix == <<"E", "r", "r", "o", "r", ":">>

\* fmt.Sprintf("Error: %v", err)
errorFragment == ErrorPrefix \o <<" ", "e", "o", "f">>

\* "Error: No response from LLM"
noResponseFragment == ErrorPrefix \o <<" ", "N", "o">>

\* a Choice: a nil pointer, or a Content (empty, an ordinary text, or an
\* answer of the model that begins with the word "Error:")
Choice(text) == [nil |-> FALSE, Content |-> text]

ChoiceUniverse ==
  { [nil |-> TRUE, Content |-> <<>>],
    Choice(<<>>),
    Choice(<<"o", "k">>),
    Choice(ErrorPrefix \o <<" ", "4", "0", "4">>) }

\* what ce.llm.GenerateContent answers
Answers ==
  { [err |-> TRUE, nil |-> TRUE, Choices |-> <<>>],
    [err |-> FALSE, nil |-> TRUE, Choices |-> <<>>] }
  \cup { [err |-> FALSE, nil |-> FALSE, Choices |-> cs] :
           cs \in UNION { [1..n -> ChoiceUniverse] : n \in 0..MaxChoices } }

\* lines 166-181: what the goroutine will send for an answer, in order
fragments(answer) ==
  IF answer.err THEN <<errorFragment>>
  ELSE IF answer.nil THEN <<noResponseFragment>>
  ELSE LET sendable == SelectSeq(answer.Choices,
                         LAMBDA choice : ~choice.nil /\ choice.Content # <<>>)
       IN [k \in 1..Len(sendable) |-> sendable[k].Content]

\* the goroutine closes the channel only when it sent all Choices
deferred_OnlyOnSuccess(signalled) == IF signalled THEN "done" ELSE "close"

\* line 163: defer close(resultChan), run on every return of the goroutine
deferred(signalled) == "close"

\* the goroutine after todo is left to send
afterSend(todo, signalled) ==
  IF todo = <<>> THEN deferred(signalled) ELSE "send"

\* lines 148-160, 184: ChatStream makes the channel, starts the goroutine
\* and returns the channel; the caller enters its range loop
ChatStream(variant, answer) ==
  /\ llm = answer
  /\ resultChan = [sent |-> <<>>, closes |-> 0]
  /\ producer = [pc |-> "generate", todo |-> <<>>, signalled |-> FALSE]
  /\ consumer = [variant |-> variant, pc |-> "recv", chunk |-> <<>>,
                 printed |-> <<>>, reported |-> <<>>]

\* lines 165-175: the goroutine calls the model
GenerateContent ==
  /\ producer.pc = "generate"
  /\ LET signalled == llm.err \/ llm.nil
     IN producer' = [pc |-> afterSend(fragments(llm), signalled),
                     todo |-> fragments(llm),
                     signalled |-> signalled]
  /\ UNCHANGED <<llm, resultChan, consumer>>
  /\ UNCHANGED <<scraperVars, processorVars, storeVars, sessionVars, cancel,
                 progressVars, appVars>>

\* resultChan <- fragment meets the receive of the range loop (the channel
\* has no buffer)
Send ==
  /\ producer.pc = "send"
  /\ consumer.pc = "recv"
  /\ resultChan.closes = 0
  /\ resultChan' = [resultChan EXCEPT !.sent = Append(@, Head(producer.todo))]
  /\ consumer' = [consumer EXCEPT !.pc = "body",
                                  !.chunk = Head(producer.todo)]
  /\ producer' = [producer EXCEPT
                    !.todo = Tail(producer.todo),
                    !.pc = afterSend(Tail(producer.todo), producer.signalled)]
  /\ UNCHANGED llm
  /\ UNCHANGED <<scraperVars, processorVars, storeVars, sessionVars, cancel,
                 progressVars, appVars>>

\* the deferred close(resultChan)
Close ==
  /\ producer.pc = "close"
  /\ resultChan' = [resultChan EXCEPT !.closes = @ + 1]
  /\ producer' = [producer EXCEPT !.pc = "done"]
  /\ UNCHANGED <<llm, consumer>>
  /\ UNCHANGED <<scraperVars, processorVars, storeVars, sessionVars, cancel,
                 progressVars, appVars>>

\* the body of the range loop: the second version of run and the handler
\* break on a chunk with the prefix "Error:", the first version prints
\* every chunk
Body ==
  /\ consumer.pc = "body"
  /\ consumer' =
       IF consumer.variant # "cli1" /\ HasPrefix(consumer.chunk, ErrorPrefix)
       THEN [consumer EXCEPT !.reported = Append(@, consumer.chunk),
                             !.pc = "break"]
       ELSE [consumer EXCEPT !.printed = Append(@, consumer.chunk),
                             !.pc = "recv"]
  /\ UNCHANGED <<llm, resultChan, producer>>
  /\ UNCHANGED <<scraperVars, processorVars, storeVars, sessionVars, cancel,
                 progressVars, appVars>>

\* the range loop ends on the closed channel
RangeEnd ==
  /\ consumer.pc = "recv"
  /\ resultChan.closes > 0
  /\ consumer' = [consumer EXCEPT !.pc = "end"]
  /\ UNCHANGED <<llm, resultChan, producer>>
  /\ UNCHANGED <<scraperVars, processorVars, storeVars, sessionVars, cancel,
                 progressVars, appVars>>

\* no ChatStream call runs
StreamIdle ==
  /\ llm = [err |-> FALSE, nil |-> FALSE, Choices |-> <<>>]
  /\ resultChan = [sent |-> <<>>, closes |-> 1]
  /\ producer = [pc |-> "done", todo |-> <<>>, signalled |-> FALSE]
  /\ consumer = [variant |-> "cli", pc |-> "end", chunk |-> <<>>,
                 printed |-> <<>>, reported |-> <<>>]

StreamNext ==
  \/ GenerateContent
  \/ Send
  \/ Close
  \/ Body
  \/ RangeEnd

(***************************************************************************)
(* The progress counter                                                    *)
(***************************************************************************)
\* no counter is in use
ProgressIdle ==
  /\ scrapeCount = 0
  /\ accesses = <<>>
  /\ reporter = [variant |-> "none", loads |-> 0, lastCount |-> 0]

\* main.go lines 535-550: one round of the progress updater, a goroutine
\* started before Scrape that never ends: the atomic load of the counter
\* (the bar is set to the value, lastCount keeps it, then it sleeps)
Load ==
  /\ reporter.variant = "cli"
  /\ reporter.loads < MaxLoads
  /\ LET count == LoadInt32(scrapeCount) IN
       /\ accesses' = Append(accesses,
                              Access("reporter", "atomic.LoadInt32", count))
       /\ reporter' = [reporter EXCEPT !.loads = @ + 1, !.lastCount = count]
  /\ UNCHANGED <<scrapeCount, scraperVars, notScraperVars, cancel>>

\* a crawler whose callback counts, made for the URL of a query, with the
\* counter at 0
ProgressInit ==
  /\ ScraperInit
  /\ \E la \in LinksA, lb \in LinksB, le \in LinksE :
       web = Site(la, lb, le, <<>>)
  /\ s.config.IgnorePatterns = <<>>
  /\ s.config.AllowedExtensions = <<HTML, <<"/">>>>
  /\ scrapeCount = 0
  /\ accesses = <<>>
  /\ \E variant \in {"cli", "ws"} :
       reporter = [variant |-> variant, loads |-> 0, lastCount |-> 0]

ProgressNext == ScraperNext \/ Load

(***************************************************************************)
(* The storing loop of the orchestrator (cmd/main.go)                      *)
(***************************************************************************)
\* most ProcessedDocuments handed to the storing loop
MaxProcessed == 4

\* the configured batch sizes
BatchSizes == {1, 2, 3}

\* the loop advancing by one Document
nextIndex_ByOne(i, batchSize) == i + 1

\* the step of the loop: i += batchSize
nextIndex(i, batchSize) == i + batchSize

\* lines 606-610 (229-233): the end of the batch that starts at i
batchEnd(i, batchSize, n) ==
  IF i + batchSize > n THEN n ELSE i + batchSize

\* the storing loop before its first round, over n ProcessedDocuments:
\* "startup" is the loop of the first version of run (lines 227-248),
\* "interactive" the one of the second (lines 601-625)
NewIngest(variant, n, batchSize) ==
  [variant |-> variant, n |-> n, BatchSize |-> batchSize, i |-> 0,
   pc |-> "loop", stores |-> <<>>, reports |-> 0]

\* one round: vectorStore.Store(processed[i:end]); when it fails the loop
\* of the first version returns the error, the one of the second prints it
\* and goes on with the next batch
StoreSlice ==
  /\ ingest.pc = "loop"
  /\ ingest.i < ingest.n
  /\ \E ok \in BOOLEAN :
       ingest' =
         [ingest EXCEPT
            !.stores = Append(@, [from |-> ingest.i,
                                  to |-> batchEnd(ingest.i, ingest.BatchSize,
                                                  ingest.n),
                                  ok |-> ok]),
            !.reports = IF ok \/ ingest.variant = "startup" THEN @ ELSE @ + 1,
            !.i = IF ~ok /\ ingest.variant = "startup" THEN @
                  ELSE nextIndex(ingest.i, ingest.BatchSize),
            !.pc = IF ~ok /\ ingest.variant = "startup" THEN "failed"
                   ELSE "loop"]
  /\ UNCHANGED <<retrieval, validator, tasks, conn>>
  /\ UNCHANGED <<scraperVars, processorVars, storeVars, sessionVars, cancel,
                 streamVars, progressVars>>

\* the loop condition i < len(processed) fails
StoreLoopEnd ==
  /\ ingest.pc = "loop"
  /\ ingest.i >= ingest.n
  /\ ingest' = [ingest EXCEPT !.pc = "done"]
  /\ UNCHANGED <<retrieval, validator, tasks, conn>>
  /\ UNCHANGED <<scraperVars, processorVars, storeVars, sessionVars, cancel,
                 streamVars, progressVars>>

\* no storing loop runs
IngestIdle == ingest = [NewIngest("interactive", 0, 1) EXCEPT !.pc = "done"]

IngestInit ==
  \E variant \in {"startup", "interactive"}, n \in 0..MaxProcessed,
     batchSize \in BatchSizes :
    ingest = NewIngest(variant, n, batchSize)

IngestNext == StoreSlice \/ StoreLoopEnd

RetrievalIdle == retrieval = <<>>

(***************************************************************************)
(* Package config, and the construction of the chat engine                 *)
(***************************************************************************)
\* "invalid-url", the URL of the test of Validate
invalidURL == <<"i", "n", "v", "a", "l", "i", "d", "-", "u", "r", "l">>

\* a string url.Parse answers with an error: missing protocol scheme
malformedURL == <<":", "x">>

\* applyDefaults, line 221: "http://localhost:11434"
DefaultBaseURL == <<"h", ":", "/", "/", "l">>

\* the Configs of the model; a temperature is written in tenths (7 is 0.7),
\* a rate limit in whole requests per second
Configs ==
  [ BaseURL : {<<>>, DefaultBaseURL, invalidURL, malformedURL},
    MaxTokens : {0, 1000, 5000},
    Temperature : {-1, 0, 7, 10, 15, 30},
    DatabaseURL : {<<>>, invalidURL, malformedURL},
    VectorDim : {-1, 1536},
    BatchSize : {0, 100},
    MaxDepth : {0, 3},
    RateLimit : {0, 2},
    AllowedExtensions : {<<>>, <<<<".", "h">>, <<"/">>, <<>>>>,
                         <<<<"h">>, <<".", "h">>, <<"p">>>>},
    ChunkSize : {0, 1000},
    ChunkOverlap : {0, 200} ]

ValidationError(field, message, arg) ==
  [Field |-> field, Message |-> message, Arg |-> arg]

\* line 100
overlapInvalid(c) ==
  c.ChunkOverlap < 0 \/ c.ChunkOverlap >= c.ChunkSize

\* line 84: an entry of AllowedExtensions that Validate objects to
extInvalid(ext) == ~HasPrefix(ext, <<".">>) /\ ext # <<>> /\ ext # <<"/">>

\* lines 18-116: the errors in the order in which they are appended
Validate(c) ==
  LET when(cond, field, message) ==
        IF cond THEN <<ValidationError(field, message, <<>>)>> ELSE <<>>
      bad == SelectSeq(c.AllowedExtensions, extInvalid)
  IN when(c.BaseURL = <<>>, "llm.base_url", "Ollama base URL is required")
     \o when(c.MaxTokens < 1 \/ c.MaxTokens > 4096, "llm.max_tokens",
             "max_tokens must be between 1 and 4096")
     \o when(c.Temperature < 0 \/ c.Temperature > 20, "llm.temperature",
             "temperature must be between 0 and 2")
     \o when(c.DatabaseURL # <<>> /\ ~Parse(c.DatabaseURL).ok,
             "database.url", "invalid database URL")
     \o when(c.VectorDim < 1, "database.vector_dim",
             "vector_dim must be positive")
     \o when(c.BatchSize < 1, "database.batch_size",
             "batch_size must be positive")
     \o when(c.MaxDepth < 1, "scraper.max_depth",
             "max_depth must be positive")
     \o when(c.RateLimit <= 0, "scraper.rate_limit",
             "rate_limit must be positive")
     \o [k \in 1..Len(bad) |->
          ValidationError("scraper.allowed_extensions",
                          "invalid extension format: %s", bad[k])]
     \o when(c.ChunkSize < 1, "processor.chunk_size",
             "chunk_size must be positive")
     \o when(overlapInvalid(c), "processor.chunk_overlap",
             "chunk_overlap must be non-negative and less than chunk_size")
     \o when(~Parse(c.BaseURL).ok, "llm.base_url", "invalid Ollama base URL")

\* lines 210-254: the defaults of the fields that hold their zero value
applyDefaults(c) ==
  [c EXCEPT
     !.MaxTokens = IF @ = 0 THEN 2000 ELSE @,
     !.Temperature = IF @ = 0 THEN 7 ELSE @,
     !.BaseURL = IF @ = <<>> THEN DefaultBaseURL ELSE @,
     !.VectorDim = IF @ = 0 THEN 1536 ELSE @,
     !.BatchSize = IF @ = 0 THEN 100 ELSE @,
     !.MaxDepth = IF @ = 0 THEN 3 ELSE @,
     !.RateLimit = IF @ = 0 THEN 2 ELSE @,
     !.AllowedExtensions = IF Len(@) = 0 THEN DefaultExtensions ELSE @,
     !.ChunkSize = IF @ = 0 THEN 1000 ELSE @,
     !.ChunkOverlap = IF @ = 0 THEN 200 ELSE @]

\* llm.NewWithConfig, part_007 lines 86-98: the error of the construction
llm_NewWithConfig(temperature, maxTokens) ==
  IF temperature <= 0 \/ temperature > 10
  THEN "temperature must be between 0 and 1"
  ELSE IF maxTokens < 0 THEN "max tokens cannot be negative"
  ELSE nil

\* a Config as it is written down, before anything read it
NewValidator(c) ==
  [pc |-> "raw", config |-> c, loaded |-> FALSE, validated |-> FALSE,
   errors |-> <<>>, engine |-> "none"]

\* LoadConfig, lines 162-201: the Config of the file with the defaults
LoadConfig ==
  /\ validator.pc = "raw"
  /\ validator' = [validator EXCEPT !.pc = "loaded", !.loaded = TRUE,
                                    !.config = applyDefaults(@)]
  /\ UNCHANGED <<ingest, retrieval, tasks, conn>>
  /\ UNCHANGED <<scraperVars, processorVars, storeVars, sessionVars, cancel,
                 streamVars, progressVars>>

\* a call of Validate, on a Config as written or as loaded
ValidateConfig ==
  /\ validator.pc \in {"raw", "loaded"}
  /\ validator' = [validator EXCEPT !.pc = "validated", !.validated = TRUE,
                                    !.errors = Validate(validator.config)]
  /\ UNCHANGED <<ingest, retrieval, tasks, conn>>
  /\ UNCHANGED <<scraperVars, processorVars, storeVars, sessionVars, cancel,
                 streamVars, progressVars>>

\* cmd/main.go lines 69-87 and 139-148: run builds the chat engine with the
\* temperature and the max tokens of the Config that LoadConfig returned
NewEngine ==
  /\ validator.pc \in {"loaded", "validated"}
  /\ validator.loaded
  /\ validator.errors = <<>>
  /\ validator' =
       [validator EXCEPT
          !.pc = "constructed",
          !.engine = llm_NewWithConfig(validator.config.Temperature,
                                       validator.config.MaxTokens)]
  /\ UNCHANGED <<ingest, retrieval, tasks, conn>>
  /\ UNCHANGED <<scraperVars, processorVars, storeVars, sessionVars, cancel,
                 streamVars, progressVars>>

ValidatorInit == \E c \in Configs : validator = NewValidator(c)

ValidatorNext == LoadConfig \/ ValidateConfig \/ NewEngine

ValidatorIdle == validator = [pc |-> "idle"]

(***************************************************************************)
(* The progress updaters of the interactive loop (cmd/main.go)             *)
(***************************************************************************)
\* number of queries with a URL
MaxIngestions == 2

\* number of rounds of the updaters that are looked at
MaxRounds == 3

\* the loop before its first query: no updater, no bar
NewTasks ==
  [pc |-> "await", ingestions |-> 0, updaters |-> <<>>, finished |-> {},
   sets |-> <<>>]

\* lines 534-548 and 573-586: go func() { for { ...; time.Sleep } }() for
\* the bar; the loop has no condition and no return
Updater(bar) == [bar |-> bar, running |-> TRUE]

\* lines 502-548: a query with a URL is read, the crawler is built, the
\* scraping bar is made and its updater started; a crawler that cannot be
\* built ends the round before that
StartScrape ==
  /\ tasks.pc = "await"
  /\ tasks.ingestions < MaxIngestions
  /\ \E ok \in BOOLEAN :
       tasks' =
         IF ok
         THEN [tasks EXCEPT
                 !.pc = "scrape",
                 !.ingestions = @ + 1,
                 !.updaters = Append(@, Updater(<<tasks.ingestions + 1,
                                                  "scrapingBar">>))]
         ELSE [tasks EXCEPT !.ingestions = @ + 1]
  /\ UNCHANGED <<ingest, retrieval, validator, conn>>
  /\ UNCHANGED <<scraperVars, processorVars, storeVars, sessionVars, cancel,
                 streamVars, progressVars>>

\* lines 551-586: Scrape returns and scrapingBar.Finish() is called; after
\* an error the round ends, otherwise the processing bar is made and its
\* updater started
ScrapeReturns ==
  /\ tasks.pc = "scrape"
  /\ \E ok \in BOOLEAN :
       tasks' =
         IF ok
         THEN [tasks EXCEPT
                 !.pc = "process",
                 !.finished = @ \cup {<<tasks.ingestions, "scrapingBar">>},
                 !.updaters = Append(@, Updater(<<tasks.ingestions,
                                                  "processingBar">>))]
         ELSE [tasks EXCEPT
                 !.pc = "await",
                 !.finished = @ \cup {<<tasks.ingestions, "scrapingBar">>}]
  /\ UNCHANGED <<ingest, retrieval, validator, conn>>
  /\ UNCHANGED <<scraperVars, processorVars, storeVars, sessionVars, cancel,
                 streamVars, progressVars>>

\* lines 588-625: the Documents are processed, processingBar.Finish() is
\* called, the batches are stored and the loop reads the next query
ProcessReturns ==
  /\ tasks.pc = "process"
  /\ tasks' = [tasks EXCEPT
                 !.pc = "await",
                 !.finished = @ \cup {<<tasks.ingestions, "processingBar">>}]
  /\ UNCHANGED <<ingest, retrieval, validator, conn>>
  /\ UNCHANGED <<scraperVars, processorVars, storeVars, sessionVars, cancel,
                 streamVars, progressVars>>

\* lines 536-546: one round of an updater: the counter is loaded and the
\* bar is set
Round(k) ==
  /\ tasks.updaters[k].running
  /\ Len(tasks.sets) < MaxRounds
  /\ tasks' = [tasks EXCEPT
                 !.sets = Append(@,
                   [bar |-> tasks.updaters[k].bar, at |-> tasks.pc,
                    finished |-> tasks.updaters[k].bar \in tasks.finished])]
  /\ UNCHANGED <<ingest, retrieval, validator, conn>>
  /\ UNCHANGED <<scraperVars, processorVars, storeVars, sessionVars, cancel,
                 streamVars, progressVars>>

TasksIdle == tasks = [NewTasks EXCEPT !.ingestions = MaxIngestions]

TasksInit == tasks = NewTasks

TasksNext ==
  \/ StartScrape
  \/ ScrapeReturns
  \/ ProcessReturns
  \/ \E k \in 1..Len(tasks.updaters) : Round(k)

(***************************************************************************)
(* One WebSocket connection (server/server.go)                             *)
(***************************************************************************)
\* number of messages read from the connection
MaxMessages == 3

\* most sendMessage calls of one handleMessage
MaxSends == 2

\* the connection after the upgrade: no message read
NewConn == [open |-> TRUE, handlers |-> <<>>]

\* lines 102-116: ReadMessage and Unmarshal; a message that does not parse
\* is dropped, any other is handed to a goroutine of its own
\* (go s.handleMessage(conn, msg)) and the loop reads on; sends is the
\* number of sendMessage calls this handleMessage is going to make
ReadMessage ==
  /\ conn.open
  /\ Len(conn.handlers) < MaxMessages
  /\ \E ok \in BOOLEAN, sends \in 1..MaxSends :
       conn' =
         [conn EXCEPT
            !.handlers = Append(@,
               IF ok THEN [pc |-> "run", left |-> sends]
               ELSE [pc |-> "dropped", left |-> 0])]
  /\ UNCHANGED <<ingest, retrieval, validator, tasks>>
  /\ UNCHANGED <<scraperVars, processorVars, storeVars, sessionVars, cancel,
                 streamVars, progressVars>>

\* line 103: ReadMessage fails, the loop ends (the handlers started go on)
ReadError ==
  /\ conn.open
  /\ conn' = [conn EXCEPT !.open = FALSE]
  /\ UNCHANGED <<ingest, retrieval, validator, tasks>>
  /\ UNCHANGED <<scraperVars, processorVars, storeVars, sessionVars, cancel,
                 streamVars, progressVars>>

\* the handlers that are inside conn.WriteJSON
Writers == { k \in 1..Len(conn.handlers) : conn.handlers[k].pc = "write" }

\* lines 205-213: sendMessage of handler k enters conn.WriteJSON; no lock
\* is taken before it
BeginWrite(k) ==
  /\ conn.handlers[k].pc = "run"
  /\ conn' = [conn EXCEPT !.handlers[k].pc = "write"]
  /\ UNCHANGED <<ingest, retrieval, validator, tasks>>
  /\ UNCHANGED <<scraperVars, processorVars, storeVars, sessionVars, cancel,
                 streamVars, progressVars>>

\* conn.WriteJSON of handler k returns; handleMessage goes on to its next
\* sendMessage or returns
EndWrite(k) ==
  /\ conn.handlers[k].pc = "write"
  /\ conn' = [conn EXCEPT
                !.handlers[k].left = @ - 1,
                !.handlers[k].pc = IF conn.handlers[k].left = 1 THEN "done"
                                   ELSE "run"]
  /\ UNCHANGED <<ingest, retrieval, validator, tasks>>
  /\ UNCHANGED <<scraperVars, processorVars, storeVars, sessionVars, cancel,
                 streamVars, progressVars>>

ConnIdle == conn = [NewConn EXCEPT !.open = FALSE]

ConnInit == conn = NewConn

ConnNext ==
  \/ ReadMessage
  \/ ReadError
  \/ \E k \in 1..Len(conn.handlers) : BeginWrite(k)
  \/ \E k \in 1..Len(conn.handlers) : EndWrite(k)

\* none of these components is in use
AppIdle ==
  /\ IngestIdle /\ RetrievalIdle /\ ValidatorIdle /\ TasksIdle /\ ConnIdle

(***************************************************************************)
(* Specifications                                                          *)
(***************************************************************************)
vars ==
  <<scraperVars, processorVars, storeVars, sessionVars, cancel, streamVars,
    progressVars, appVars>>

\* the crawler: a site, a Scraper and up to MaxCalls calls of Scrape
Init ==
  /\ ScraperInit /\ ProcessorIdle /\ StoreIdle /\ SessionIdle /\ CancelIdle
  /\ StreamIdle /\ ProgressIdle /\ AppIdle

Spec == Init /\ [][ScraperNext]_vars

\* the chunker: a Processor and one Document text, handed to Process
ProcessorInit ==
  /\ ScraperIdle /\ StoreIdle /\ SessionIdle /\ CancelIdle
  /\ StreamIdle /\ ProgressIdle /\ AppIdle
  /\ \E config \in ProcessorConfigs : p = processor_NewWithConfig(config)
  /\ content \in Texts
  /\ input = <<ContentDocument(<<>>, content)>>
  /\ processed = <<>>
  /\ phase = "ready"

ProcessorNext == Process

SpecProcessor == ProcessorInit /\ [][ProcessorNext]_vars

\* the chunker on Documents whose first sentence is longer than the
\* default overlap
OverlapInit ==
  /\ ScraperIdle /\ StoreIdle /\ SessionIdle /\ CancelIdle
  /\ StreamIdle /\ ProgressIdle /\ AppIdle
  /\ \E config \in ProcessorConfigs : p = processor_NewWithConfig(config)
  /\ content \in LongTexts
  /\ input = <<ContentDocument(<<>>, content)>>
  /\ processed = <<>>
  /\ phase = "ready"

SpecOverlap == OverlapInit /\ [][ProcessorNext]_vars

\* the chunker on slices of several Documents
SliceInit ==
  /\ ScraperIdle /\ StoreIdle /\ SessionIdle /\ CancelIdle
  /\ StreamIdle /\ ProgressIdle /\ AppIdle
  /\ \E config \in ProcessorConfigs : p = processor_NewWithConfig(config)
  /\ content = <<>>
  /\ input \in Slices
  /\ processed = <<>>
  /\ phase = "ready"

SpecSlice == SliceInit /\ [][ProcessorNext]_vars

\* the chunker on texts of words that are and are not stopwords
StopwordInit ==
  /\ ScraperIdle /\ StoreIdle /\ SessionIdle /\ CancelIdle
  /\ StreamIdle /\ ProgressIdle /\ AppIdle
  /\ \E config \in StopwordConfigs : p = processor_NewWithConfig(config)
  /\ content \in WordTexts
  /\ input = <<ContentDocument(<<>>, content)>>
  /\ processed = <<>>
  /\ phase = "ready"

SpecStopwords == StopwordInit /\ [][ProcessorNext]_vars

\* the vector store: an empty table and up to MaxStores calls of Store
StoreInit ==
  /\ ScraperIdle /\ ProcessorIdle /\ StoreIdle /\ SessionIdle /\ CancelIdle
  /\ StreamIdle /\ ProgressIdle /\ AppIdle

SpecStore == StoreInit /\ [][StoreNext]_vars

\* the interactive session: up to MaxQueries queries
SessionStart ==
  /\ ScraperIdle /\ ProcessorIdle /\ StoreIdle /\ CancelIdle /\ SessionInit
  /\ StreamIdle /\ ProgressIdle /\ AppIdle

SpecSession == SessionStart /\ [][SessionNext]_vars

\* one ChatStream call and the loop that reads its channel
StreamInit ==
  /\ ScraperIdle /\ ProcessorIdle /\ StoreIdle /\ SessionIdle /\ CancelIdle
  /\ ProgressIdle /\ AppIdle
  /\ \E variant \in Variants, answer \in Answers : ChatStream(variant, answer)

SpecStream == StreamInit /\ [][StreamNext]_vars

\* the same, the goroutine and the loop being scheduled as long as they
\* can take a step
SpecStreamFair == SpecStream /\ WF_vars(StreamNext)

\* the crawler and a caller that raises the cancellation signal during a
\* wait for the rate limiter
CancelStart ==
  /\ CancelInit /\ ProcessorIdle /\ StoreIdle /\ SessionIdle
  /\ StreamIdle /\ ProgressIdle /\ AppIdle

SpecCancel == CancelStart /\ [][CancelNext]_vars

\* the crawler with a counting callback and the progress updater
ProgressStart ==
  /\ ProgressInit /\ ProcessorIdle /\ StoreIdle /\ SessionIdle /\ CancelIdle
  /\ StreamIdle /\ AppIdle

SpecProgress == ProgressStart /\ [][ProgressNext]_vars

\* the crawler against servers that answer with other status codes
StatusStart ==
  /\ StatusInit /\ ProcessorIdle /\ StoreIdle /\ SessionIdle /\ CancelIdle
  /\ StreamIdle /\ ProgressIdle /\ AppIdle

SpecStatus == StatusStart /\ [][ScraperNext]_vars

\* the vector store with up to MaxRetrievals calls of Query
QueryStart ==
  /\ ScraperIdle /\ ProcessorIdle /\ StoreIdle /\ SessionIdle /\ CancelIdle
  /\ StreamIdle /\ ProgressIdle /\ AppIdle

SpecQuery == QueryStart /\ [][QueryNext]_vars

\* a Config that is loaded, validated and handed to the chat engine
ValidatorStart ==
  /\ ScraperIdle /\ ProcessorIdle /\ StoreIdle /\ SessionIdle /\ CancelIdle
  /\ StreamIdle /\ ProgressIdle
  /\ IngestIdle /\ RetrievalIdle /\ ValidatorInit /\ TasksIdle /\ ConnIdle

SpecValidator == ValidatorStart /\ [][ValidatorNext]_vars

\* the progress updaters over up to MaxIngestions queries with a URL
TasksStart ==
  /\ ScraperIdle /\ ProcessorIdle /\ StoreIdle /\ SessionIdle /\ CancelIdle
  /\ StreamIdle /\ ProgressIdle
  /\ IngestIdle /\ RetrievalIdle /\ ValidatorIdle /\ TasksInit /\ ConnIdle

SpecTasks == TasksStart /\ [][TasksNext]_vars

\* one connection on which up to MaxMessages messages arrive
ConnStart ==
  /\ ScraperIdle /\ ProcessorIdle /\ StoreIdle /\ SessionIdle /\ CancelIdle
  /\ StreamIdle /\ ProgressIdle
  /\ IngestIdle /\ RetrievalIdle /\ ValidatorIdle /\ TasksIdle /\ ConnInit

SpecConn == ConnStart /\ [][ConnNext]_vars

\* the storing loop over up to MaxProcessed ProcessedDocuments
IngestStart ==
  /\ ScraperIdle /\ ProcessorIdle /\ StoreIdle /\ SessionIdle /\ CancelIdle
  /\ StreamIdle /\ ProgressIdle
  /\ IngestInit /\ RetrievalIdle /\ ValidatorIdle /\ TasksIdle /\ ConnIdle

SpecIngest == IngestStart /\ [][IngestNext]_vars

(***************************************************************************)
(* Properties of the crawler                                               *)
(***************************************************************************)
\* the running Scrape call, in the shape of an entry of returns
Running ==
  [url |-> entry.url, visited |-> entry.visited, documents |-> documents,
   err |-> nil, fetched |-> fetched, followed |-> followed,
   progress |-> progress, errlog |-> errlog]

\* every Scrape call made so far, finished or not
Runs == Range(returns) \cup (IF stack # <<>> THEN {Running} ELSE {})

DocURLs(docs) == [ k \in 1..Len(docs) |-> docs[k].URL ]

FetchedURLs(r) == { r.fetched[k].url : k \in 1..Len(r.fetched) }

NoDuplicates(seq) ==
  \A i, j \in 1..Len(seq) : i # j => seq[i] # seq[j]

Failed(resp) == resp.err \/ resp.StatusCode # 200 \/ resp.parseErr

InScope(r, url, depth) ==
  /\ Parse(url).ok
  /\ Parse(url).Host = Parse(r.url).Host
  /\ Parse(url).Host = s.baseHost
  /\ depth <= s.config.MaxDepth

\* page A links to B (same host) and to C (other host), maxDepth = 2
Scenario2(r) ==
  /\ r.url = urlA
  /\ r.visited = {}
  /\ web[urlA] = Page(<<hrefB, urlC>>)
  /\ web[urlB] = Page(<<>>)
  /\ s.config.MaxDepth = 2
  /\ s.config.AllowedExtensions \in {DefaultExtensions, <<HTML, <<"/">>>>}

\* C1: every URL that is fetched and every Document that is emitted has the
\* host of the start URL and was reached at depth <= maxDepth; a page A
\* linking to same-host B and other-host C, crawled with maxDepth = 2,
\* yields exactly the Documents of A and B.
C1_CrawlScope ==
  /\ \A r \in Runs :
       /\ \A k \in 1..Len(r.fetched) :
            InScope(r, r.fetched[k].url, r.fetched[k].depth)
       /\ \A k \in 1..Len(r.documents) :
            InScope(r, r.documents[k].URL, r.documents[k].Metadata.depth)
  /\ \A k \in 1..Len(returns) :
       Scenario2(returns[k]) =>
         /\ returns[k].err = nil
         /\ DocURLs(returns[k].documents) = <<urlA, urlB>>

C1_Witness ==
  \E k \in 1..Len(returns) :
    /\ Scenario2(returns[k])
    /\ DocURLs(returns[k].documents) = <<urlA, urlB>>
    /\ \E j \in 1..Len(returns[k].followed) :
         returns[k].followed[j] = [from |-> urlA, href |-> urlC]

\* C2: within one Scrape call no URL is fetched more than once and no two
\* emitted Documents share a URL, whatever the link graph (cycles,
\* self-links, pages linked from several pages).
C2_FetchedOnce ==
  \A r \in Runs :
    /\ NoDuplicates([ k \in 1..Len(r.fetched) |-> r.fetched[k].url ])
    /\ NoDuplicates(DocURLs(r.documents))

\* a finished crawl over the cycle A -> B -> A in which B also links to
\* itself or is linked twice
C2_Witness ==
  \E k \in 1..Len(returns) :
    LET r == returns[k] IN
      /\ {urlA, urlB} \subseteq Range(DocURLs(r.documents))
      /\ \E j \in 1..Len(r.followed) :
           r.followed[j] = [from |-> urlB, href |-> urlA]
      /\ \E j \in 1..Len(r.followed) :
           r.followed[j].from = urlA
           /\ resolve(urlA, r.followed[j].href) = [ok |-> TRUE, url |-> urlB]

\* C3: the visited set is empty at the start of every Scrape call, and a
\* second Scrape of the same start URL on the same crawler returns the same
\* Documents as the first.
C3_VisitedPerCall ==
  /\ \A r \in Runs : r.visited = {}
  /\ \A i, j \in 1..Len(returns) :
       returns[i].url = returns[j].url =>
         returns[i].documents = returns[j].documents

\* the extension of a path: what follows the last "." of its last segment
Ext(path) ==
  LET slash == LastIndex(path, <<"/">>)
      seg == SubSeq(path, slash + 1, Len(path))
      dot == LastIndex(seg, <<".">>)
  IN IF dot = 0 THEN <<>> ELSE SubSeq(seg, dot, Len(seg))

NeverFetched(url) == \A r \in Runs : url \notin FetchedURLs(r)

\* C4: with the allowed extensions {.html} or {.html, /}, a URL whose path
\* ends in an extension that is not listed (.pdf) is never admitted by
\* shouldProcessURL and never fetched.
C4_ExtensionFilter ==
  s.config.AllowedExtensions \in {<<HTML>>, <<HTML, <<"/">>>>} =>
    \A url \in UrlUniverse :
      (/\ Parse(url).ok
       /\ Ext(Parse(url).Path) # <<>>
       /\ ToLower(Ext(Parse(url).Path)) # HTML) =>
        /\ ~shouldProcessURL(s, url)
        /\ NeverFetched(url)

\* a finished crawl that met a link to the same-host .pdf on an emitted
\* page, within depth, and did not fetch it
C4_Witness ==
  /\ s.config.AllowedExtensions \in {<<HTML>>, <<HTML, <<"/">>>>}
  /\ \E k \in 1..Len(returns) :
       LET r == returns[k] IN
         /\ r.err = nil
         /\ \E j \in 1..Len(r.followed), d \in 1..Len(r.documents) :
              /\ r.followed[j].href = urlD
              /\ r.followed[j].from = r.documents[d].URL
              /\ r.documents[d].Metadata.depth < s.config.MaxDepth
         /\ urlD \notin r.visited
         /\ urlD \notin FetchedURLs(r)

\* C27: the empty-string and "/" entries of the default list {.html, .htm,
\* /, ""} match only paths without extension and directory paths: with the
\* default list a same-host URL whose path ends in an extension that is not
\* listed (.pdf) is never admitted (marked visited) and never fetched.
C27_DefaultExtensions ==
  s.config.AllowedExtensions = DefaultExtensions =>
    \A url \in UrlUniverse :
      (/\ Parse(url).ok
       /\ Parse(url).Host = s.baseHost
       /\ ToLower(Ext(Parse(url).Path)) \notin {<<>>, HTML, <<".", "h", "t", "m">>})
      => /\ url \notin s.visited
         /\ NeverFetched(url)

Ignored(url) ==
  \E i \in 1..Len(s.config.IgnorePatterns) :
    Contains(url, s.config.IgnorePatterns[i])

\* C5: a URL that contains a configured ignore pattern anywhere in its
\* string is never admitted and never fetched.
C5_IgnorePatterns ==
  \A url \in UrlUniverse \cup StartURLs :
    Ignored(url) => ~shouldProcessURL(s, url) /\ NeverFetched(url)

\* a finished crawl that met a link to an ignored URL which passes the
\* host, depth and extension tests
C5_Witness ==
  \E k \in 1..Len(returns) :
    LET r == returns[k] IN
      /\ r.err = nil
      /\ \E j \in 1..Len(r.followed), d \in 1..Len(r.documents) :
           /\ Ignored(r.followed[j].href)
           /\ r.followed[j].from = r.documents[d].URL
           /\ r.documents[d].Metadata.depth < s.config.MaxDepth
           /\ Parse(r.followed[j].href).Host = s.baseHost
           /\ validExt(ToLower(Parse(r.followed[j].href).Path),
                       s.config.AllowedExtensions)
           /\ r.followed[j].href \notin r.visited
           /\ r.followed[j].href \notin FetchedURLs(r)

\* the anchors a run followed out of the page url, in the order followed
RECURSIVE FollowedFrom(_, _)
FollowedFrom(fol, url) ==
  IF fol = <<>> THEN <<>>
  ELSE IF Head(fol).from = url
    THEN <<Head(fol).href>> \o FollowedFrom(Tail(fol), url)
  ELSE FollowedFrom(Tail(fol), url)

\* C6: an error on a non-root URL is local to its branch: Scrape then
\* returns nil, every anchor of every emitted page has been visited in
\* document order, and every page that was fetched well is among the
\* Documents; Scrape returns an error only when the fetch of the root fails.
C6_LocalErrors ==
  \A k \in 1..Len(returns) :
    LET r == returns[k] IN
      /\ r.err # nil =>
           /\ r.documents = <<>>
           /\ Len(r.fetched) = 1
           /\ r.fetched[1].url = r.url
           /\ Failed(Response(r.url))
      /\ r.err = nil =>
           /\ \A d \in 1..Len(r.documents) :
                FollowedFrom(r.followed, r.documents[d].URL)
                  = web[r.documents[d].URL].links
           /\ \A f \in 1..Len(r.fetched) :
                ~Failed(Response(r.fetched[f].url)) =>
                  r.fetched[f].url \in Range(DocURLs(r.documents))

\* a finished crawl in which a non-root fetch failed and a later anchor of
\* the same parent page was fetched and emitted
C6_Witness ==
  \E k \in 1..Len(returns) :
    LET r == returns[k] IN
      /\ r.err = nil
      /\ \E i, j \in 1..Len(r.fetched) :
           /\ i < j
           /\ Failed(Response(r.fetched[i].url))
           /\ r.fetched[i].from = r.fetched[j].from
           /\ r.fetched[i].from # <<>>
           /\ r.fetched[j].url \in Range(DocURLs(r.documents))
      /\ r.errlog # <<>>

\* C7: Scrape of an invalid start URL (one that does not parse, or that
\* fails the admission test) returns a non-nil error.
C7_InvalidStartURL ==
  \A k \in 1..Len(returns) :
    (~Parse(returns[k].url).ok \/ ~shouldProcessURL(s, returns[k].url))
      => returns[k].err # nil

\* depth-first pre-order of first visit, anchors in document order: the
\* URLs emitted by a crawl of url at depth, given the URLs seen so far
RECURSIVE PreOrder(_, _, _)
RECURSIVE PreOrderLinks(_, _, _, _, _)
PreOrder(url, depth, st) ==
  IF \/ depth > s.config.MaxDepth
     \/ url \in st.seen
     \/ ~shouldProcessURL(s, url)
  THEN st
  ELSE LET seen == [st EXCEPT !.seen = @ \cup {url}] IN
    IF Failed(Response(url)) THEN seen
    ELSE PreOrderLinks(url, depth, Response(url).links, 1,
                       [seen EXCEPT !.urls = Append(@, url)])

PreOrderLinks(url, depth, links, i, st) ==
  IF i > Len(links) THEN st
  ELSE LET target == resolve(url, links[i]) IN
    PreOrderLinks(url, depth, links, i + 1,
                  IF target.ok THEN PreOrder(target.url, depth + 1, st)
                  ELSE st)

\* a single page without links, maxDepth = 1
Scenario1(r) ==
  /\ r.visited = {}
  /\ r.url \in DOMAIN web
  /\ web[r.url] = Page(<<>>)
  /\ s.config.MaxDepth = 1
  /\ shouldProcessURL(s, r.url)

\* C8: Documents are emitted in depth-first pre-order of first visit,
\* anchors in document order: a page's Document precedes those of the pages
\* reached through its links, the first Document is the start URL's, a
\* single page without links and maxDepth = 1 yields exactly one Document,
\* and the sequence is a function of the link graph.
C8_PreOrder ==
  \A k \in 1..Len(returns) :
    LET r == returns[k] IN
      /\ DocURLs(r.documents)
           = PreOrder(r.url, 0, [seen |-> r.visited, urls |-> <<>>]).urls
      /\ r.documents # <<>> => r.documents[1].URL = r.url
      /\ \A i, j \in 1..Len(r.fetched) :
           (/\ r.fetched[i].url = r.fetched[j].from
            /\ r.fetched[j].url \in Range(DocURLs(r.documents))) => i < j
      /\ Scenario1(r) => DocURLs(r.documents) = <<r.url>> /\ r.err = nil

\* a finished crawl A -> (B, E), B -> F: F, found below B, is emitted
\* before E, the later anchor of A
C8_Witness ==
  \E k \in 1..Len(returns) :
    /\ returns[k].err = nil
    /\ DocURLs(returns[k].documents) = <<urlA, urlB, urlF, urlE>>

\* C13: construction with a rate limit R <= 0 fails with a configuration
\* error: no crawler built from such a configuration exists, so none
\* fetches, and no other rate is put in the place of R.
C13_RateLimitValidated ==
  \A config \in ScraperConfigs :
    config.RateLimit <= 0 =>
      \/ scraper_NewWithConfig(config).err # nil
      \/ ~ /\ s.config = scraper_NewWithConfig(config).scraper.config
           /\ s.limiter.limit # config.RateLimit
           /\ fetched # <<>>

\* C14: a cancellation signal raised while the crawler waits for the rate
\* limiter unblocks the wait without a fetch of that URL, and the cancelled
\* condition goes up the recursion: after the signal the running Scrape
\* call fetches nothing, admits no URL, and returns an error.
C14_Cancellation ==
  cancel.raised =>
    /\ cancel.call = calls =>
         /\ Len(fetched) = cancel.fetched
         /\ s.visited = cancel.visited
    /\ Len(returns) >= cancel.call => returns[cancel.call].err # nil

\* the number of onProgress calls of all the Scrape calls made so far
RECURSIVE ProgressCalls(_)
ProgressCalls(k) ==
  IF k = 0 THEN IF stack # <<>> THEN Len(progress) ELSE 0
  ELSE Len(returns[k].progress) + ProgressCalls(k - 1)

\* an activation has marked its URL and not yet run the callback with it
Marking == stack # <<>> /\ Top.pc = "progress"

\* an activation has run the callback and not yet fetched
Acquiring == stack # <<>> /\ Top.pc \in {"wait", "get"}

\* C28: for every admitted URL the steps are mark-visited, onProgress(url),
\* limiter acquire, GET, in this order and each once: the callback has been
\* run once with every visited URL (between the mark and the call, which
\* are adjacent statements of the crawling thread, with every one but the
\* URL just marked), the fetched URLs are the URLs handed to the callback,
\* in the same order, but for the one whose activation is still at the
\* limiter or at the GET, a GET is made by an activation that went through
\* the limiter, and the callback has run at least as often as Documents
\* were emitted.
C28_StepOrder ==
  /\ ProgressCalls(Len(returns))
       = Cardinality(s.visited) - (IF Marking THEN 1 ELSE 0)
  /\ Marking => Top.urlStr \in s.visited /\ Top.urlStr \notin Range(progress)
  /\ \A r \in Runs :
       /\ NoDuplicates(r.progress)
       /\ Len(r.progress) >= Len(r.documents)
       /\ Len(r.fetched) <= Len(r.progress)
       /\ \A k \in 1..Len(r.fetched) : r.fetched[k].url = r.progress[k]
       /\ Range(r.progress) \subseteq s.visited
  /\ \A k \in 1..Len(returns) :
       Len(returns[k].fetched) = Len(returns[k].progress)
  /\ stack # <<>> =>
       Len(progress) - Len(fetched) = (IF Acquiring THEN 1 ELSE 0)
  /\ Acquiring => progress[Len(progress)] = Top.urlStr
  /\ (stack # <<>> /\ Top.pc = "get") => s.limiter.tokens = 0

\* a finished crawl of three pages of which one failed: three calls of the
\* callback, three fetches in the same order, two Documents
C28_Witness ==
  \E k \in 1..Len(returns) :
    LET r == returns[k] IN
      /\ Len(r.progress) = 3
      /\ Len(r.documents) = 2
      /\ [ j \in 1..3 |-> r.fetched[j].url ] = r.progress
      /\ r.visited = {}
      /\ Cardinality(s.visited) = 3

\* the accesses that write the counter
IsWrite(access) == access.op = "atomic.AddInt32"

\* the values of the counter are seen in rising order, none below 0 and
\* none above the number of admitted URLs
RisingWithinAdmitted ==
  /\ \A j, k \in 1..Len(accesses) :
       j < k => accesses[j].value <= accesses[k].value
  /\ \A k \in 1..Len(accesses) :
       /\ accesses[k].value >= 0
       /\ accesses[k].value <= Cardinality(s.visited)

\* C29: the progress counter has one writer, the crawl thread, and is read
\* by the reporting task only; every access is atomic; the counter never
\* decreases and every observed value is between 0 and the number of
\* admitted URLs.
C29_ProgressCounter ==
  /\ \A k \in 1..Len(accesses) :
       /\ IsWrite(accesses[k]) => accesses[k].thread = "crawl"
       /\ ~IsWrite(accesses[k]) => accesses[k].thread = "reporter"
       /\ accesses[k].op \in {"atomic.AddInt32", "atomic.LoadInt32"}
  /\ RisingWithinAdmitted

\* C29, amended: the progress counter has one writer, the crawl thread,
\* which writes it by atomic adds of 1, once per admitted URL; every access
\* by another thread is an atomic load (the writer thread itself may read
\* the counter as a plain variable); the counter never decreases and every
\* observed value is between 0 and the number of admitted URLs.
C29_ProgressCounterAmended ==
  /\ \A k \in 1..Len(accesses) :
       /\ IsWrite(accesses[k]) => accesses[k].thread = "crawl"
       /\ accesses[k].thread # "crawl" =>
            accesses[k].op = "atomic.LoadInt32"
       /\ accesses[k].op \in {"atomic.AddInt32", "atomic.LoadInt32", "read"}
  /\ RisingWithinAdmitted
  /\ scrapeCount = Cardinality(s.visited) - (IF Marking THEN 1 ELSE 0)

\* the updater of run has seen the counter at 0 and at 2 or more, and the
\* crawl has ended with the counter at the number of admitted URLs
C29_Witness ==
  /\ reporter.variant = "cli"
  /\ stack = <<>>
  /\ returns # <<>>
  /\ scrapeCount >= 2
  /\ \E j, k \in 1..Len(accesses) :
       /\ accesses[j].thread = "reporter" /\ accesses[j].value = 0
       /\ accesses[k].thread = "reporter" /\ accesses[k].value >= 2

\* the response the innermost activation is about to receive
Received == Response(Top.urlStr)

\* C25: a response with a 2xx status code yields a Document, and only a
\* response with another status code is a fetch error: a GET that got a
\* response and a readable body appends a Document exactly when the status
\* code is in 200..299.
C25_Accepts2xx ==
  [][ (stack # <<>> /\ Top.pc = "get" /\ fetched' # fetched
         /\ ~Received.err /\ ~Received.parseErr)
      => (Received.StatusCode \in 200..299 <=> documents' # documents) ]_vars

(***************************************************************************)
(* Properties of the chunker                                               *)
(***************************************************************************)
\* the chunks of the processed Document
Chunks == processed[1].Chunks

\* C9: every emitted chunk, measured as emitted (the last one after
\* trimming), has length >= minChunkLength.
C9_MinChunkLength ==
  phase = "done" =>
    \A k \in 1..Len(Chunks) : Len(Chunks[k]) >= p.config.MinChunkLength

\* C10: every emitted chunk except the last has length <= chunkSize, also
\* for a sentence longer than chunkSize and counting the separators.
C10_ChunkSize ==
  phase = "done" =>
    \A k \in 1..(Len(Chunks) - 1) : Len(Chunks[k]) <= p.config.ChunkSize

\* the sentences of the processed Document
Sentences == splitIntoSentences(cleanText(p, content))

\* C10 as amended: every emitted chunk except the last has length
\* <= chunkSize + 1 (the separator behind its last sentence), unless it is
\* one sentence written behind the overlap carried into an otherwise empty
\* chunk; then its length is at most chunkOverlap + that sentence + 1.
C10_ChunkSizeAmended ==
  phase = "done" =>
    \A k \in 1..(Len(Chunks) - 1) :
      \/ Len(Chunks[k]) <= p.config.ChunkSize + 1
      \/ \E j \in 1..Len(Sentences) :
           /\ HasSuffix(Chunks[k], Sentences[j] \o <<" ">>)
           /\ Len(Chunks[k]) <= p.config.ChunkOverlap + Len(Sentences[j]) + 1

\* a Document whose first sentence is longer than chunkSize, emitted as a
\* chunk of its own and followed by another chunk
C10_Witness ==
  /\ phase = "done"
  /\ Len(Chunks) >= 2
  /\ Len(Sentences[1]) > p.config.ChunkSize
  /\ Chunks[1] = Sentences[1] \o <<" ">>

\* the last n characters of chunk
LastChars(chunk, n) == SubSeq(chunk, Len(chunk) - n + 1, Len(chunk))

\* C11: for chunkOverlap = V > 0 and consecutive emitted chunks A, B with
\* len(A) >= V, B begins with exactly the last V characters of A (also when
\* len(A) = V, when a chunk was dropped between them and when B is the
\* trimmed final chunk).
C11_Overlap ==
  (phase = "done" /\ p.config.ChunkOverlap > 0) =>
    \A k \in 1..(Len(Chunks) - 1) :
      Len(Chunks[k]) >= p.config.ChunkOverlap =>
        HasPrefix(Chunks[k + 1], LastChars(Chunks[k], p.config.ChunkOverlap))

\* splitIntoChunks of a chunker that carries no overlap
splitWithoutOverlap(pr, text) ==
  splitIntoChunks([config |-> [pr.config EXCEPT !.ChunkOverlap = 0]], text)

\* C26: when chunkOverlap is configured as 0, every chunk opened after a
\* close starts empty: the chunks of a Document are those of the same
\* sentences cut with nothing carried from a closed chunk to the next.
C26_ZeroOverlap ==
  \A config \in ProcessorConfigs :
    (phase = "done" /\ config.ChunkOverlap = 0
       /\ p = processor_NewWithConfig(config))
    => Chunks = splitWithoutOverlap(p, cleanText(p, content))

\* the whitespace-delimited tokens of the normalized text
Tokens == Fields(IF p.config.PreserveLineBreaks THEN content
                 ELSE ToLower(content))

\* the default stopword list and customStopwords
Stopwords == Range(getStopwords) \cup Range(p.config.CustomStopwords)

\* the tokens that are no stopword, in their order, joined by single spaces
Kept == Join(SelectSeq(Tokens, LAMBDA w : w \notin Stopwords), <<" ">>)

\* C30: with removeStopwords enabled, cleanText drops exactly the tokens
\* equal to an entry of the default stopword list or of customStopwords,
\* keeps every other token in its order (also "d." when "d" is a stopword)
\* and joins them with single spaces: the one chunk of the Document (chunk
\* size 1000, minimum length 1) is that text.
C30_Stopwords ==
  (phase = "done" /\ p.config.RemoveStopwords) =>
    Chunks = IF Kept = <<>> THEN <<>> ELSE <<Kept>>

\* the text "a d. " with the custom stopword "d": "a" is dropped, "d." kept
C30_Witness ==
  /\ phase = "done"
  /\ p.config.RemoveStopwords
  /\ p.config.CustomStopwords = <<<<"d">>>>
  /\ content = <<"a", " ", "d", ".", " ">>
  /\ Chunks = <<<<"d", ".">>>>

\* C31: Process returns one ProcessedDocument per Document of the slice, in
\* the order of the slice, each with its Document as it was handed in, also
\* for a Document whose text gives no chunk; it returns no error.
C31_OnePerDocument ==
  /\ phase \in {"ready", "done"}
  /\ phase = "done" =>
       /\ Len(processed) = Len(input)
       /\ \A k \in 1..Len(input) :
            /\ processed[k].Document = input[k]
            /\ processed[k].Chunks
                 = splitIntoChunks(p, cleanText(p, input[k].Content))

\* three different Documents of which the second gives no chunk
C31_Witness ==
  /\ phase = "done"
  /\ Len(input) = 3
  /\ input[1] # input[3]
  /\ processed[1].Chunks # <<>>
  /\ processed[2].Chunks = <<>>
  /\ processed[3].Chunks # <<>>
  /\ processed[3].Document = input[3]

\* C12: construction of a chunker fails when chunkOverlap >= chunkSize,
\* chunkOverlap < 0, chunkSize <= 0 or minChunkLength <= 0, so a chunker
\* that processes a Document has none of these (in particular not the
\* chunkOverlap 200 with a chunk size <= 200).
C12_ConstructionValidated ==
  phase = "done" =>
    /\ p.config.ChunkOverlap < p.config.ChunkSize
    /\ p.config.ChunkOverlap >= 0
    /\ p.config.ChunkSize > 0
    /\ p.config.MinChunkLength > 0

\* what was written to the accumulation of chunk k behind the overlap
\* carried from chunk k - 1
WrittenTo(k) ==
  LET seed == IF k = 1 THEN <<>> ELSE overlapSeed(p, Chunks[k - 1])
  IN SubSeq(Chunks[k], Len(seed) + 1, Len(Chunks[k]))

\* what was written to the chunks k, k + 1, ...
RECURSIVE WrittenFrom(_)
WrittenFrom(k) ==
  IF k > Len(Chunks) THEN <<>> ELSE WrittenTo(k) \o WrittenFrom(k + 1)

Terminators == {".", "!", "?"}

\* C39: splitIntoSentences partitions the normalized text: the sentences
\* joined with single spaces are the text, every sentence but the last ends
\* with ".", "!" or "?", none is empty, and text behind the last terminator
\* is the last sentence; splitIntoChunks, which ends for every
\* configuration, writes every sentence once, in order, to one
\* accumulation: where no accumulation with text in it is dropped
\* (minChunkLength <= 1), the chunks without the overlap carried into them
\* are, one behind the other, the sentences joined with single spaces.
C39_SentencesPartition ==
  phase = "done" =>
    LET text == cleanText(p, content) IN
      /\ Join(Sentences, <<" ">>) = text
      /\ \A k \in 1..Len(Sentences) : Sentences[k] # <<>>
      /\ \A k \in 1..(Len(Sentences) - 1) :
           Sentences[k][Len(Sentences[k])] \in Terminators
      /\ text # <<>> => HasSuffix(text, Sentences[Len(Sentences)])
      /\ p.config.MinChunkLength <= 1 => WrittenFrom(1) = text

\* a text of two sentences, the second without a terminator, cut into two
\* chunks of which the second starts with the overlap
C39_Witness ==
  /\ phase = "done"
  /\ p.config.MinChunkLength <= 1
  /\ Len(Sentences) = 2
  /\ Sentences[2][Len(Sentences[2])] \notin Terminators
  /\ Len(Chunks) = 2
  /\ overlapSeed(p, Chunks[1]) # <<>>
  /\ Chunks[2] = overlapSeed(p, Chunks[1]) \o Sentences[2]

(***************************************************************************)
(* Properties of the vector store                                          *)
(***************************************************************************)
\* the ids of the rows
Ids(rows) == { rows[k].id : k \in 1..Len(rows) }

\* C15: Store is all-or-nothing per call: a call in which the embedding or
\* the upsert of a chunk (or the begin or the commit) failed returns an
\* error and leaves the table exactly as it was before the call.
C15_AllOrNothing ==
  /\ \A k \in 1..Len(storeLog) :
       storeLog[k].err # nil => storeLog[k].after = storeLog[k].before
  /\ (storeLog # <<>> /\ ~tx.open) => table = storeLog[Len(storeLog)].after
  /\ tx.open =>
       table = IF storeLog = <<>> THEN <<>>
               ELSE storeLog[Len(storeLog)].after

\* a call on a table that holds rows fails at a chunk after it wrote an
\* earlier chunk
C15_Witness ==
  \E k \in 1..Len(storeLog) :
    /\ storeLog[k].err \in {"embedding", "insert"}
    /\ storeLog[k].written >= 1
    /\ storeLog[k].before # <<>>

\* C16: indexing is idempotent: a second Store of the same
\* ProcessedDocuments leaves the same set of compound ids and the same
\* number of rows as the first, and no id twice.
C16_Idempotent ==
  \A k \in 1..(Len(storeLog) - 1) :
    (/\ storeLog[k].err = nil
     /\ storeLog[k + 1].err = nil
     /\ storeLog[k + 1].docs = storeLog[k].docs) =>
      /\ Ids(storeLog[k + 1].after) = Ids(storeLog[k].after)
      /\ Len(storeLog[k + 1].after) = Len(storeLog[k].after)
      /\ Cardinality(Ids(storeLog[k + 1].after)) = Len(storeLog[k + 1].after)

\* the same Document of two chunks stored twice, both calls committed
C16_Witness ==
  \E k \in 1..(Len(storeLog) - 1) :
    /\ storeLog[k].err = nil
    /\ storeLog[k + 1].err = nil
    /\ storeLog[k + 1].docs = storeLog[k].docs
    /\ Len(storeLog[k].docs) = 1
    /\ Len(storeLog[k].docs[1].Chunks) = 2
    /\ Ids(storeLog[k + 1].after)
         = { compoundID(storeLog[k].docs[1].ID, 0),
             compoundID(storeLog[k].docs[1].ID, 1) }

\* c_1 + ... + c_n, the chunks of the Documents of one Store call
RECURSIVE TotalChunks(_)
TotalChunks(docs) ==
  IF docs = <<>> THEN 0
  ELSE Len(docs[1].Chunks) + TotalChunks(SubSeq(docs, 2, Len(docs)))

\* C17: the Documents handed from the crawl through the chunker to Store
\* have ids that differ from each other, so their compound ids never
\* coincide: a committed Store of Documents with c_1..c_n chunks into an
\* empty table leaves c_1 + ... + c_n rows.
C17_UniqueDocumentIDs ==
  \A k \in 1..Len(storeLog) :
    (storeLog[k].err = nil /\ storeLog[k].before = <<>>) =>
      /\ \A i, j \in 1..Len(storeLog[k].docs) :
           i # j => storeLog[k].docs[i].ID # storeLog[k].docs[j].ID
      /\ Len(storeLog[k].after) = TotalChunks(storeLog[k].docs)

(***************************************************************************)
(* Properties of the interactive session                                   *)
(***************************************************************************)
\* how many times event is in the trace
Count(event) == Cardinality({ i \in 1..Len(trace) : trace[i] = event })

\* the calls of the chat flow: embedding of the query, retrieval, generation
ChatFlow ==
  { "CreateEmbedding", "CreateEmbedding failed", "Query", "Query failed",
    "Chat", "Chat failed", "ChatStream", "ChatStream failed" }

\* the query at hand holds a URL and nothing else
URLOnly ==
  /\ session.reads > 0
  /\ urlRegex_FindString(session.query) # <<>>
  /\ onlyURL(session.query, urlRegex_FindString(session.query))

\* the query at hand holds a URL and other text
URLAndText ==
  /\ session.reads > 0
  /\ urlRegex_FindString(session.query) # <<>>
  /\ ~onlyURL(session.query, urlRegex_FindString(session.query))

\* the scoped ingestion is complete: the crawl, then one Process per
\* scraped Document, then one Store per batch
Ingested ==
  /\ trace # <<>>
  /\ trace[1] = "Scrape"
  /\ Count("Process") = session.docs
  /\ Count("Store") + Count("Store failed")
       = batches(session.docs, session.BatchSize)

\* C18: a query that is exactly one URL triggers the ingestion of that URL
\* and the loop then awaits the next query, without embedding of the
\* query, retrieval or Chat/ChatStream, whether the ingestion succeeded or
\* failed (second version of the loop, and the WebSocket handler).
C18_URLOnlyQuery ==
  (session.variant \in {"cli", "ws"} /\ URLOnly) =>
    /\ session.pc \notin {"embed", "query", "chat"}
    /\ \A i \in 1..Len(trace) : trace[i] \notin ChatFlow
    /\ session.pc = "await" => (Ingested \/ Count("report") > 0)

\* C19: for a query with a URL and other text the scoped ingestion runs
\* first (crawl, then chunking of every scraped Document, then indexing of
\* the chunks), and retrieval and generation for the same query follow; in
\* the loop of the command line and in the WebSocket handler.
C19_URLAndTextQuery ==
  (session.variant \in {"cli", "ws"} /\ URLAndText) =>
    /\ session.pc \in {"embed", "query", "chat"} => Ingested
    /\ (session.pc = "await" /\ Count("report") = 0) =>
         /\ Ingested
         /\ Count("Query") = 1
         /\ Count("Chat") + Count("ChatStream") = 1

\* C20: an error of the query embedding, of the retrieval or of the
\* generation (blocking or streaming) is reported and the loop awaits the
\* next query: nothing else is done for the failed query (both versions of
\* the loop).
C20_ErrorsReturnToAwait ==
  \A i \in 1..Len(trace) :
    trace[i] \in { "CreateEmbedding failed", "Query failed", "Chat failed",
                   "ChatStream failed" } =>
      /\ i + 1 = Len(trace)
      /\ trace[i + 1] = "report"
      /\ session.pc = "await"

\* C21: in the loop of the command line the query "exit" in any letter
\* case ends the session with nothing done for it (no ingestion, retrieval
\* or generation), and every other query, also "exit" between spaces,
\* leaves the session running; an ended session does nothing more.
C21_Exit ==
  [][ /\ (session.variant # "ws" /\ session'.reads = session.reads + 1) =>
           /\ session'.pc = "terminated"
                <=> ToLower(session'.query) = <<"e", "x", "i", "t">>
           /\ session'.pc = "terminated" => trace' = <<>>
      /\ session.pc = "terminated" =>
           (session'.pc = "terminated" /\ trace' = trace) ]_vars

\* the session ended on the query "Exit"
C21_Witness ==
  /\ session.variant # "ws"
  /\ session.pc = "terminated"
  /\ session.reads > 0
  /\ session.query = EXIT
  /\ trace = <<>>

(***************************************************************************)
(* Properties of the streaming generation                                  *)
(***************************************************************************)
\* the loop left the channel while the goroutine still has fragments
StoppedReading == consumer.pc = "break" /\ producer.todo # <<>>

\* C22: for a ChatStream call whose consumer keeps reading, the goroutine
\* in the end closes the channel, once, after it sent all fragments, on
\* normal completion and on a backend error; the range loop ends only on
\* that close, and nothing is sent after it.
C22_ClosedOnce ==
  /\ [](resultChan.closes <= 1)
  /\ [](resultChan.closes = 1 =>
          /\ producer.pc = "done"
          /\ producer.todo = <<>>
          /\ resultChan.sent = fragments(llm))
  /\ [](consumer.pc = "end" => resultChan.closes = 1)
  /\ [][resultChan.closes = 1 => resultChan'.sent = resultChan.sent]_vars
  /\ <>(resultChan.closes = 1 \/ StoppedReading)

\* two fragments were sent and read, the channel was closed, the loop ended
C22_Witness ==
  /\ resultChan.closes = 1
  /\ Len(resultChan.sent) = 2
  /\ consumer.printed = resultChan.sent
  /\ consumer.pc = "end"

\* C23: the goroutine never blocks forever on a consumer that stopped
\* reading: also when the loop was left early (on a fragment with the
\* prefix "Error:"), the goroutine reaches its end and closes the channel.
C23_ProducerEnds == <>(producer.pc = "done" /\ resultChan.closes = 1)

\* C24: an error of the generation is a distinguished fragment, the last
\* one sent before the close, and the consumer reports a stream error
\* exactly when the goroutine signalled one: no content fragment is taken
\* for an error, no error is dropped (second version of the loop, and the
\* handler).
C24_StreamErrors ==
  consumer.variant # "cli1" =>
    /\ consumer.reported # <<>> => producer.signalled
    /\ (producer.signalled /\ resultChan.closes = 1) =>
         /\ resultChan.sent # <<>>
         /\ HasPrefix(resultChan.sent[Len(resultChan.sent)], ErrorPrefix)
         /\ consumer.pc \in {"break", "end"} => consumer.reported # <<>>

(***************************************************************************)
(* Properties of Query                                                     *)
(***************************************************************************)
\* result is chunk i of Document doc: its url, its title and the text of
\* the chunk as Store writes it
ResultOf(result, doc, i) ==
  /\ result.URL = doc.URL
  /\ result.Title = sanitizeUTF8(doc.Title)
  /\ result.Content = sanitizeUTF8(doc.Chunks[i + 1])

\* C33: after a successful Store of documents, Query with limit k >= 1
\* returns min(k, number of stored chunks) results, each with the url and
\* the title of the Document its chunk was stored from and the text of the
\* chunk as content; Query with limit 0 uses the configured search limit
\* (default 5).
C33_QueryResults ==
  \A q \in 1..Len(retrieval) :
    LET r == retrieval[q]
        k == IF r.limit = 0 THEN DefaultSearchLimit ELSE r.limit
    IN (r.err = nil /\ r.commits = 1) =>
         /\ Len(r.docs) = IF k > TotalChunks(r.stored)
                          THEN TotalChunks(r.stored) ELSE k
         /\ \A j \in 1..Len(r.docs) :
              \E d \in 1..Len(r.stored) :
                \E i \in 0..(Len(r.stored[d].Chunks) - 1) :
                  ResultOf(r.docs[j], r.stored[d], i)

(***************************************************************************)
(* Further properties of the crawler                                       *)
(***************************************************************************)
\* how many times the Scrape call r fetched url
Fetches(r, url) ==
  Cardinality({ k \in 1..Len(r.fetched) : r.fetched[k].url = url })

\* C35: a URL that was admitted and whose fetch, status test or parse
\* failed stays in visited and is not fetched again in that crawl, and the
\* URL of every emitted Document is in visited: at every point the URLs of
\* the emitted Documents are a subset of visited, each of them once.
C35_FailedStayVisited ==
  \A r \in Runs :
    /\ \A k \in 1..Len(r.fetched) :
         Failed(Response(r.fetched[k].url)) =>
           /\ r.fetched[k].url \in s.visited
           /\ Fetches(r, r.fetched[k].url) = 1
    /\ Range(DocURLs(r.documents)) \subseteq s.visited
    /\ Cardinality(Range(DocURLs(r.documents))) = Len(r.documents)

\* a finished crawl that emitted a Document and met, on two pages, a link
\* to a URL whose fetch had failed
C35_Witness ==
  \E n \in 1..Len(returns) :
    LET r == returns[n] IN
      /\ r.documents # <<>>
      /\ \E k \in 1..Len(r.fetched) :
           /\ Failed(Response(r.fetched[k].url))
           /\ r.fetched[k].url \in s.visited
           /\ \E i, j \in 1..Len(r.followed) :
                /\ r.followed[i].from # r.followed[j].from
                /\ resolve(r.followed[i].from, r.followed[i].href)
                     = [ok |-> TRUE, url |-> r.fetched[k].url]
                /\ resolve(r.followed[j].from, r.followed[j].href)
                     = [ok |-> TRUE, url |-> r.fetched[k].url]

\* ScraperConfigs with set and unset values of every field that has a
\* default
DefaultsConfigs ==
  [ BaseURL : {urlA}, MaxDepth : {0, 1, 5}, RateLimit : {0, 1, 5},
    IgnorePatterns : {<<>>}, AllowedExtensions : {<<>>, <<HTML>>},
    Timeout : {0, 10}, OnProgress : {TRUE} ]

\* the value of a field after construction: the default in the place of
\* the zero value, any other value as it was given
Defaulted(given, zero, default) == IF given = zero THEN default ELSE given

\* C36: with MaxDepth = d >= 1 the crawler fetches pages at the depths 0
\* to d inclusive and never deeper; a MaxDepth of 0 is replaced by 3 at
\* construction, so that no configuration keeps the crawl to the seed page;
\* a zero RateLimit, Timeout and AllowedExtensions are replaced by their
\* defaults (2, 30 s, {.html, .htm, /, ""}) and other values are kept (the
\* construction is looked at in the states before the first Scrape).
C36_DepthAndDefaults ==
  /\ s.config.MaxDepth >= 1
  /\ \A r \in Runs :
       /\ \A k \in 1..Len(r.fetched) :
            r.fetched[k].depth \in 0..s.config.MaxDepth
       /\ \A d \in 1..Len(r.documents), j \in 1..Len(r.followed) :
            LET target == resolve(r.followed[j].from, r.followed[j].href) IN
              (/\ r.followed[j].from = r.documents[d].URL
               /\ r.documents[d].Metadata.depth < s.config.MaxDepth
               /\ target.ok
               /\ shouldProcessURL(s, target.url))
              => \/ target.url \in s.visited
                 \/ (stack # <<>> /\ Top.urlStr = target.url)
  /\ calls = 0 =>
       \A config \in DefaultsConfigs :
         LET c == scraper_NewWithConfig(config).scraper.config IN
           /\ c.MaxDepth = Defaulted(config.MaxDepth, 0, 3)
           /\ c.RateLimit = Defaulted(config.RateLimit, 0, 2)
           /\ c.Timeout = Defaulted(config.Timeout, 0, 30)
           /\ c.AllowedExtensions
                = Defaulted(config.AllowedExtensions, <<>>, DefaultExtensions)
           /\ c.BaseURL = config.BaseURL
           /\ c.IgnorePatterns = config.IgnorePatterns

\* a finished crawl with MaxDepth = d, 1 or 2, that fetched a page at depth
\* d and did not go on to a page that this one links to
C36_Witness ==
  /\ s.config.MaxDepth \in {1, 2}
  /\ \E n \in 1..Len(returns) :
       LET r == returns[n] IN
         \E k \in 1..Len(r.fetched), j \in 1..Len(r.followed) :
           LET target == resolve(r.followed[j].from, r.followed[j].href) IN
             /\ r.fetched[k].depth = s.config.MaxDepth
             /\ r.followed[j].from = r.fetched[k].url
             /\ target.ok
             /\ shouldProcessURL(s, target.url)
             /\ target.url \notin s.visited

(***************************************************************************)
(* Properties of the configuration                                         *)
(***************************************************************************)
\* the constraints on the fields that c violates, each entry of
\* AllowedExtensions being a constraint of its own
Violated(c) ==
  { name \in { "base_url", "max_tokens", "temperature", "database_url",
               "vector_dim", "batch_size", "max_depth", "rate_limit",
               "chunk_size", "chunk_overlap", "base_url_format" } :
      CASE name = "base_url" -> c.BaseURL = <<>>
        [] name = "max_tokens" -> ~(1 <= c.MaxTokens /\ c.MaxTokens <= 4096)
        [] name = "temperature" -> ~(0 <= c.Temperature /\ c.Temperature <= 20)
        [] name = "database_url" ->
             c.DatabaseURL # <<>> /\ ~Parse(c.DatabaseURL).ok
        [] name = "vector_dim" -> ~(c.VectorDim >= 1)
        [] name = "batch_size" -> ~(c.BatchSize >= 1)
        [] name = "max_depth" -> ~(c.MaxDepth >= 1)
        [] name = "rate_limit" -> ~(c.RateLimit > 0)
        [] name = "chunk_size" -> ~(c.ChunkSize >= 1)
        [] name = "chunk_overlap" ->
             ~(0 <= c.ChunkOverlap /\ c.ChunkOverlap < c.ChunkSize)
        [] name = "base_url_format" -> ~Parse(c.BaseURL).ok }
  \cup { <<"extension", k>> : k \in { k \in 1..Len(c.AllowedExtensions) :
            LET ext == c.AllowedExtensions[k] IN
              ~(ext = <<>> \/ ext = <<"/">> \/ Head(ext) = ".") } }

\* the "invalid config" of TestConfigValidation: max_tokens 5000,
\* temperature 3.0, the URLs "invalid-url", vector_dim -1, nothing else set
InvalidConfig ==
  [ BaseURL |-> invalidURL, MaxTokens |-> 5000, Temperature |-> 30,
    DatabaseURL |-> invalidURL, VectorDim |-> -1, BatchSize |-> 0,
    MaxDepth |-> 0, RateLimit |-> 0, AllowedExtensions |-> <<>>,
    ChunkSize |-> 0, ChunkOverlap |-> 0 ]

\* Validate answers with one error per violated constraint
OnePerViolation ==
  validator.validated =>
    Len(validator.errors) = Cardinality(Violated(validator.config))

\* C34: Validate returns an empty list exactly when every constraint on the
\* fields holds, and otherwise one error per violated constraint; a Config
\* that violates only max_tokens, temperature, database URL and vector_dim,
\* the other fields left unset, yields exactly the errors for those fields.
C34_Validate ==
  validator.validated =>
    /\ validator.errors = <<>> <=> Violated(validator.config) = {}
    /\ OnePerViolation
    /\ validator.config = InvalidConfig =>
         { validator.errors[k].Field : k \in 1..Len(validator.errors) }
           = { "llm.max_tokens", "llm.temperature", "database.url",
               "database.vector_dim" }

\* C40: every temperature that Validate accepts (0 <= t <= 2), and every
\* one LoadConfig can produce after the defaults (0 becomes 0.7), is
\* accepted by the construction of the chat engine: a validated Config
\* never fails with a temperature error when the engine is built.
C40_TemperatureConsistent ==
  (validator.pc = "constructed" /\ validator.validated)
    => validator.engine # "temperature must be between 0 and 1"

(***************************************************************************)
(* Properties of the progress updaters                                     *)
(***************************************************************************)
\* the updaters that are running
Live == { k \in 1..Len(tasks.updaters) : tasks.updaters[k].running }

\* C37: every progress updater started for an ingestion (that of the
\* scraping bar and that of the processing bar) stops once the ingestion
\* has finished: while the loop awaits the next query no updater is
\* running, after any number of queries with a URL, and no updater sets a
\* bar after the bar was finished.
C37_UpdatersStop ==
  /\ tasks.pc = "await" => Live = {}
  /\ \A k \in 1..Len(tasks.sets) : ~tasks.sets[k].finished

(***************************************************************************)
(* Properties of the WebSocket connection                                  *)
(***************************************************************************)
\* C38: on one WebSocket connection at most one task writes to the
\* connection at any time: the sendMessage calls of two messages received
\* on the connection (progress, stream fragments and the others) never
\* run concurrently.
C38_OneWriter == Cardinality(Writers) <= 1

(***************************************************************************)
(* Properties of the storing loop                                          *)
(***************************************************************************)
\* the Store calls made so far are batches that follow one another from
\* the first ProcessedDocument on, none empty and none above the batch size
Contiguous ==
  \A k \in 1..Len(ingest.stores) :
    LET b == ingest.stores[k] IN
      /\ b.from = IF k = 1 THEN 0
                  ELSE ingest.stores[k - 1].to
      /\ b.to - b.from \in 1..ingest.BatchSize
      /\ b.to <= ingest.n

\* C32: the storing loop over n ProcessedDocuments with batch size B >= 1
\* makes ceil(n/B) Store calls with contiguous batches in order, each of at
\* most B, which hold every ProcessedDocument once; the loop of the
\* interactive ingestion reports a failed batch and goes on with the next
\* ones, the loop of the start-up ingestion ends with an error at the first
\* failed batch.
C32_Batches ==
  LET st == ingest.stores IN
    /\ ingest.variant = "interactive" =>
         /\ Contiguous
         /\ ingest.pc # "failed"
         /\ ingest.reports
              = Cardinality({ k \in 1..Len(st) : ~st[k].ok })
         /\ ingest.pc = "done" =>
              /\ Len(st) = batches(ingest.n, ingest.BatchSize)
              /\ st # <<>> => st[Len(st)].to = ingest.n
    /\ ingest.variant = "startup" =>
         /\ Contiguous
         /\ \A k \in 1..(Len(st) - 1) : st[k].ok
         /\ ingest.pc = "failed" <=> (st # <<>> /\ ~st[Len(st)].ok)
         /\ ingest.pc = "done" =>
              /\ Len(st) = batches(ingest.n, ingest.BatchSize)
              /\ st # <<>> => st[Len(st)].to = ingest.n

\* three ProcessedDocuments in batches of two, the first batch failed and
\* reported, the second stored
C32_Witness ==
  /\ ingest.variant = "interactive"
  /\ ingest.pc = "done"
  /\ ingest.reports = 1
  /\ ingest.stores = << [from |-> 0, to |-> 2, ok |-> FALSE],
                        [from |-> 2, to |-> 3, ok |-> TRUE] >>

====
